---- MODULE Spec2Model ----
(***************************************************************************)
(* eco-market: arbitrage and crafting analysis over one store snapshot.    *)
(*                                                                         *)
(* Money is counted in tenths of a currency unit, so the source's 0.1 is   *)
(* 1, its 50 is 500 and its price sentinel 999999 is 9999990.  Quotients   *)
(* the source keeps as floats (margin, amortized profit) are kept as exact *)
(* fractions [num, den].                                                   *)
(*                                                                         *)
(* A store name is a sequence of tokens: colour tags and text.  An offer   *)
(* record in the model carries, besides the fields of the source, the      *)
(* index `owner` of the store it was read from; no computation reads it.   *)
(***************************************************************************)
EXTENDS Integers, Sequences, FiniteSets, TLC

VARIABLES api, recipes_api, pc, outcome, currency_filter, arbitrage, report,
          crafting_opportunities, profession_opportunities, monitor, chat

vars == <<api, recipes_api, pc, outcome, currency_filter, arbitrage, report,
          crafting_opportunities, profession_opportunities, monitor, chat>>

(***************************************************************************)
(* Program constants                                                       *)
(***************************************************************************)
\* generate_report.py:237, 999999 currency units
SENTINEL == 9999990
\* generate_report.py:243, profit > 0.1
EPSILON == 1
\* generate_report.py:8, MIN_PROFIT_THRESHOLD = 50
REPORT_MIN_PROFIT_THRESHOLD == 500
\* discord_bot.py:11 and analyze_stores.py:6, MIN_PROFIT_THRESHOLD = 10
BOT_MIN_PROFIT_THRESHOLD == 100
\* monitor_deals.py:9, GOOD_DEAL_THRESHOLD = 50
GOOD_DEAL_THRESHOLD == 500
\* generate_report.py:259, balance - investment < 50
LIQUIDITY_MARGIN == 500
\* profession_analyzer.py:10, MIN_PROFESSION_PROFIT = 10
MIN_PROFESSION_PROFIT == 100

ColorTags == {"<color=red>", "</color>"}

LowHangingFruit == <<"Low Hanging Fruit">>

EXCLUDED_BUYER_STORES == {LowHangingFruit}

Unavailable == [Failed |-> TRUE]

\* DealMonitor.__init__: nothing tracked, the first check still to come; the
\* other fields record what the last check_deals found and printed, and
\* previous_deals what the check_deals before it had found
DealMonitor_init ==
  [tracked_deals   |-> <<>>,
   startup         |-> TRUE,
   first_check     |-> FALSE,
   tracked_before  |-> <<>>,
   previous_deals  |-> <<>>,
   current_deals   |-> <<>>,
   new_deals       |-> <<>>,
   completed_deals |-> <<>>]

\* nothing sent to the channel
NothingSent == [message |-> <<>>, sent |-> <<>>]

(***************************************************************************)
(* Helpers                                                                 *)
(***************************************************************************)
Min2(a, b) == IF a <= b THEN a ELSE b

Max2(a, b) == IF a >= b THEN a ELSE b

SetMax(S) == CHOOSE x \in S : \A y \in S : y <= x

Frac(n, d) == [num |-> n, den |-> d]

\* what a division by zero leaves in place of a quotient: the run has raised
ZeroDivisionError == [raised |-> "ZeroDivisionError"]

\* Python's n / d
divide(n, d) == IF d = 0 THEN ZeroDivisionError ELSE Frac(n, d)

\* a / b and a // b raise ZeroDivisionError exactly for this divisor
ZeroDivisor(b) == b = 0

\* Python's a // b
FloorDiv(a, b) == IF b = 0 THEN ZeroDivisionError ELSE a \div b

RECURSIVE SumSeq(_)
SumSeq(s) == IF s = <<>> THEN 0 ELSE Head(s) + SumSeq(Tail(s))

RECURSIVE Concat(_)
Concat(ss) ==
  IF ss = <<>> THEN <<>> ELSE Head(ss) \o Concat(Tail(ss))

RECURSIVE Dedup(_)
\* the keys of a dict in insertion order
Dedup(s) ==
  IF s = <<>> THEN <<>>
  ELSE LET front == Dedup(SubSeq(s, 1, Len(s) - 1))
           x == s[Len(s)]
       IN IF \E i \in 1..Len(front) : front[i] = x THEN front
          ELSE Append(front, x)

\* the last element of least price
last_min_by_price(s) ==
  s[CHOOSE i \in 1..Len(s) :
      /\ \A j \in 1..Len(s) : s[j].price >= s[i].price
      /\ \A j \in (i + 1)..Len(s) : s[j].price > s[i].price]

\* min(seq, key=price): the first element of least price
min_by_price(s) ==
  s[CHOOSE i \in 1..Len(s) :
      /\ \A j \in 1..Len(s) : s[j].price >= s[i].price
      /\ \A j \in 1..(i - 1) : s[j].price > s[i].price]

\* max(seq, key=price): the first element of greatest price
max_by_price(s) ==
  s[CHOOSE i \in 1..Len(s) :
      /\ \A j \in 1..Len(s) : s[j].price <= s[i].price
      /\ \A j \in 1..(i - 1) : s[j].price < s[i].price]

\* list.sort(key=..., reverse=True): descending, equal keys keep their order
\* `key` lists the sort key of each element, as a fraction
StableSortDesc(s, key) ==
  LET n == Len(s)
      Gt(j, i) == key[j].num * key[i].den > key[i].num * key[j].den
      pos(i) == 1 + Cardinality({j \in 1..n : Gt(j, i)})
                  + Cardinality({j \in 1..(i - 1) :
                                   ~Gt(j, i) /\ ~Gt(i, j)})
  IN [p \in 1..n |-> s[CHOOSE i \in 1..n : pos(i) = p]]

\* descending, but equal keys come out in reverse order
ReversedTiesSortDesc(s, key) ==
  LET n == Len(s)
      Gt(j, i) == key[j].num * key[i].den > key[i].num * key[j].den
      pos(i) == 1 + Cardinality({j \in 1..n : Gt(j, i)})
                  + Cardinality({j \in (i + 1)..n :
                                   ~Gt(j, i) /\ ~Gt(i, j)})
  IN [p \in 1..n |-> s[CHOOSE i \in 1..n : pos(i) = p]]

\* key=lambda x: x['total_profit']
KeyTotalProfit(s) == [i \in 1..Len(s) |-> Frac(s[i].total_profit, 1)]

sort_unstable(s) == ReversedTiesSortDesc(s, KeyTotalProfit(s))

sort_by_total_profit(s) == StableSortDesc(s, KeyTotalProfit(s))

(***************************************************************************)
(* Snapshot normalisation                                                  *)
(***************************************************************************)
clean_store_name(name) == SelectSeq(name, LAMBDA t : t \notin ColorTags)

fetch_data == IF api = Unavailable THEN Unavailable ELSE api

\* generate_report.py:196-197
filter_by_currency(stores, cf) ==
  IF cf = {} THEN stores
  ELSE SelectSeq(stores, LAMBDA s : s.CurrencyName \in cf)

\* every offer of every store, in snapshot order
Listings(stores) ==
  Concat([i \in 1..Len(stores) |->
            [j \in 1..Len(stores[i].AllOffers) |->
               [owner   |-> stores[i].Id,
                store   |-> clean_store_name(stores[i].Name),
                enabled |-> stores[i].Enabled,
                balance |-> stores[i].Balance,
                item    |-> stores[i].AllOffers[j].ItemName,
                price   |-> stores[i].AllOffers[j].Price,
                buying  |-> stores[i].AllOffers[j].Buying,
                qty     |-> stores[i].AllOffers[j].Quantity]]])

\* store_info[name]['balance']: a later store of the same clean name overwrites
store_info_balance(stores, name) ==
  LET same == {i \in 1..Len(stores) : clean_store_name(stores[i].Name) = name}
  IN stores[SetMax(same)].Balance

item_keys(listings) == Dedup([i \in 1..Len(listings) |-> listings[i].item])

sellers_of(listings, item) ==
  SelectSeq(listings, LAMBDA o : o.item = item /\ ~o.buying)

buyers_of(listings, item, excluded) ==
  SelectSeq(listings, LAMBDA o : o.item = item /\ o.buying /\ o.store \notin excluded)

(***************************************************************************)
(* Best-pair arbitrage: generate_report.py, discord_bot.py,                *)
(* analyze_stores.py and monitor_deals.py share this selection             *)
(***************************************************************************)
\* margin = (profit / price) * 100 if price > 0 else 0
margin_of(profit, price) ==
  IF price > 0 THEN divide(profit * 100, price) ELSE Frac(0, 1)

\* a gate that lets every positive profit through
profit_gate_positive(profit) == profit > 0

\* the gate the source applies to the per-unit profit
profit_gate(profit) == profit > EPSILON

\* the cheapest stocked seller and the best-paying buyer of one item, when the
\* pair passes the price gates; <<>> otherwise
select_pair(listings, item, excluded) ==
  LET sellers == sellers_of(listings, item)
      buyers  == buyers_of(listings, item, excluded)
      sellers_with_stock == SelectSeq(sellers, LAMBDA s : s.qty > 0)
      buyers_with_demand == SelectSeq(buyers, LAMBDA b : b.qty > 0)
  IN IF sellers = <<>> \/ buyers = <<>> THEN <<>>
     ELSE IF sellers_with_stock = <<>> \/ buyers_with_demand = <<>> THEN <<>>
     ELSE LET min_sell == min_by_price(sellers_with_stock)
              max_buy  == max_by_price(buyers_with_demand)
              profit   == max_buy.price - min_sell.price
          IN IF max_buy.price > min_sell.price /\ min_sell.price < SENTINEL
                /\ profit_gate(profit)
             THEN <<[min_sell |-> min_sell, max_buy |-> max_buy, profit |-> profit,
                     margin |-> margin_of(profit, min_sell.price)]>>
             ELSE <<>>

\* the fields every best-pair variant reports
base_opportunity(item, p, max_trade_qty) ==
  [item          |-> item,
   buy_store     |-> p.min_sell.store,
   buy_price     |-> p.min_sell.price,
   buy_qty       |-> p.min_sell.qty,
   buy_owner     |-> p.min_sell.owner,
   sell_store    |-> p.max_buy.store,
   sell_price    |-> p.max_buy.price,
   sell_qty      |-> p.max_buy.qty,
   sell_owner    |-> p.max_buy.owner,
   profit        |-> p.profit,
   margin        |-> p.margin,
   max_trade_qty |-> max_trade_qty,
   total_profit  |-> p.profit * max_trade_qty]

\* generate_report.py: the balance-aware opportunity of one item
report_opportunity(stores, listings, item) ==
  LET found == select_pair(listings, item, EXCLUDED_BUYER_STORES)
  IN IF found = <<>> THEN <<>>
     ELSE LET p == found[1]
              max_qty_by_stock  == p.min_sell.qty
              max_qty_by_demand == p.max_buy.qty
              sell_store_balance == store_info_balance(stores, p.max_buy.store)
              max_qty_buyer_can_afford ==
                IF p.max_buy.price > 0
                THEN FloorDiv(sell_store_balance, p.max_buy.price) ELSE 0
              max_trade_qty ==
                Min2(Min2(max_qty_by_stock, max_qty_by_demand), max_qty_buyer_can_afford)
              investment_required == p.min_sell.price * max_trade_qty
              buy_store_balance == store_info_balance(stores, p.min_sell.store)
          IN <<[f \in {"buy_store_balance", "sell_store_balance",
                       "investment_required", "low_liquidity_warning",
                       "buyer_insufficient_funds", "max_qty_buyer_can_afford"} |->
                  CASE f = "buy_store_balance" -> buy_store_balance
                    [] f = "sell_store_balance" -> sell_store_balance
                    [] f = "investment_required" -> investment_required
                    [] f = "low_liquidity_warning" ->
                         buy_store_balance - investment_required < LIQUIDITY_MARGIN
                    [] f = "buyer_insufficient_funds" ->
                         max_qty_buyer_can_afford
                           < Min2(max_qty_by_stock, max_qty_by_demand)
                    [] f = "max_qty_buyer_can_afford" -> max_qty_buyer_can_afford]
                @@ base_opportunity(item, p, max_trade_qty)>>

\* discord_bot.py and analyze_stores.py: no exclusion list, no balances
plain_opportunity(listings, item) ==
  LET found == select_pair(listings, item, {})
  IN IF found = <<>> THEN <<>>
     ELSE LET p == found[1]
          IN <<base_opportunity(item, p, Min2(p.min_sell.qty, p.max_buy.qty))>>

\* monitor_deals.py: the threshold is applied before the record is built
monitor_opportunity(stores, listings, item) ==
  LET found == select_pair(listings, item, {})
  IN IF found = <<>> THEN <<>>
     ELSE LET p == found[1]
              max_trade_qty == Min2(p.min_sell.qty, p.max_buy.qty)
              total_profit == p.profit * max_trade_qty
              investment_required == p.min_sell.price * max_trade_qty
              buy_store_balance == store_info_balance(stores, p.min_sell.store)
          IN IF total_profit >= GOOD_DEAL_THRESHOLD
             THEN <<[f \in {"buy_store_balance", "sell_store_balance",
                            "investment_required", "low_liquidity_warning"} |->
                       CASE f = "buy_store_balance" -> buy_store_balance
                         [] f = "sell_store_balance" ->
                              store_info_balance(stores, p.max_buy.store)
                         [] f = "investment_required" -> investment_required
                         [] f = "low_liquidity_warning" ->
                              buy_store_balance - investment_required < LIQUIDITY_MARGIN]
                     @@ base_opportunity(item, p, max_trade_qty)>>
             ELSE <<>>

\* the `arbitrage` list of generate_report.analyze_arbitrage, before the threshold
report_arbitrage(stores) ==
  LET listings == Listings(stores)
      keys == item_keys(listings)
  IN Concat([k \in 1..Len(keys) |-> report_opportunity(stores, listings, keys[k])])

plain_arbitrage(stores) ==
  LET listings == Listings(stores)
      keys == item_keys(listings)
  IN Concat([k \in 1..Len(keys) |-> plain_opportunity(listings, keys[k])])

monitor_arbitrage(stores) ==
  LET listings == Listings(stores)
      keys == item_keys(listings)
  IN Concat([k \in 1..Len(keys) |-> monitor_opportunity(stores, listings, keys[k])])

high_profit(opps, threshold) ==
  SelectSeq(opps, LAMBDA opp : opp.total_profit >= threshold)

(***************************************************************************)
(* All-pairwise and free-item arbitrage: detailed_arbitrage.py             *)
(***************************************************************************)
\* key=lambda x: x['price'], reverse=True
KeyPrice(s) == [i \in 1..Len(s) |-> Frac(s[i].price, 1)]

\* key=lambda x: x['price'], ascending
KeyNegatedPrice(s) == [i \in 1..Len(s) |-> Frac(0 - s[i].price, 1)]

\* the condition under which a (seller, buyer) pair is recorded
pair_gate(profit_per_unit) == profit_per_unit > 0

\* the validity test without the store's Enabled flag
offer_of_any_store(o) == o.qty > 0 /\ 0 < o.price /\ o.price < SENTINEL

\* only enabled stores' offers with quantity > 0 and 0 < price < 999999.0
valid_offer(o) == o.enabled /\ o.qty > 0 /\ 0 < o.price /\ o.price < SENTINEL

detailed_pair(item_name, sell_offer, buy_offer) ==
  LET profit_per_unit == buy_offer.price - sell_offer.price
      max_quantity == Min2(sell_offer.qty, buy_offer.qty)
      total_profit == profit_per_unit * max_quantity
      investment == sell_offer.price * max_quantity
  IN IF pair_gate(profit_per_unit)
     THEN <<[item                   |-> item_name,
             buy_from_store         |-> sell_offer.store,
             buy_price              |-> sell_offer.price,
             buy_quantity_available |-> sell_offer.qty,
             buy_owner              |-> sell_offer.owner,
             sell_to_store          |-> buy_offer.store,
             sell_price             |-> buy_offer.price,
             sell_quantity_demand   |-> buy_offer.qty,
             sell_owner             |-> buy_offer.owner,
             profit_per_unit        |-> profit_per_unit,
             profit_margin_percent  |-> divide(profit_per_unit * 100, sell_offer.price),
             max_trade_quantity     |-> max_quantity,
             total_profit           |-> total_profit,
             investment_required    |-> investment,
             roi_percent            |-> IF investment > 0
                                        THEN divide(total_profit * 100, investment)
                                        ELSE Frac(0, 1),
             seller_balance         |-> sell_offer.balance,
             buyer_balance          |-> buy_offer.balance]>>
     ELSE <<>>

detailed_for_item(offers, item_name) ==
  LET mine == SelectSeq(offers, LAMBDA o : o.item = item_name)
      buying      == SelectSeq(mine, LAMBDA o : o.buying)
      selling     == SelectSeq(mine, LAMBDA o : ~o.buying)
      buy_offers  == StableSortDesc(buying, KeyPrice(buying))
      sell_offers == StableSortDesc(selling, KeyNegatedPrice(selling))
  IN IF buy_offers = <<>> \/ sell_offers = <<>> THEN <<>>
     ELSE Concat([s \in 1..Len(sell_offers) |->
            Concat([b \in 1..Len(buy_offers) |->
              detailed_pair(item_name, sell_offers[s], buy_offers[b])])])

\* the list of find_detailed_arbitrage before its final sort
detailed_pairs(stores) ==
  LET offers == SelectSeq(Listings(stores), valid_offer)
      keys == item_keys(offers)
  IN Concat([k \in 1..Len(keys) |-> detailed_for_item(offers, keys[k])])

find_detailed_arbitrage(stores) == sort_by_total_profit(detailed_pairs(stores))

free_pair(free, other) ==
  IF /\ other.store # free.store
     /\ other.enabled
     /\ other.item = free.item
     /\ other.buying
     /\ other.price > 0
     /\ other.qty > 0
  THEN <<[item          |-> free.item,
          free_from     |-> free.store,
          free_quantity |-> free.qty,
          buy_owner     |-> free.owner,
          sell_to       |-> other.store,
          sell_price    |-> other.price,
          sell_demand   |-> other.qty,
          sell_owner    |-> other.owner,
          max_trade     |-> Min2(free.qty, other.qty),
          total_profit  |-> other.price * Min2(free.qty, other.qty)]>>
  ELSE <<>>

\* the list of find_free_items_arbitrage before its final sort
free_pairs(stores) ==
  LET listings == Listings(stores)
      free == SelectSeq(listings,
                LAMBDA o : o.enabled /\ ~o.buying /\ o.price = 0 /\ o.qty > 0)
  IN Concat([f \in 1..Len(free) |->
       Concat([l \in 1..Len(listings) |-> free_pair(free[f], listings[l])])])

find_free_items_arbitrage(stores) == sort_by_total_profit(free_pairs(stores))

(***************************************************************************)
(* Snapshots the store endpoint can serve                                  *)
(***************************************************************************)
\* offers laid out over the stores of the multi-offer snapshots
MaxOffers == 4

Prices == {0, 20, 21, 50, SENTINEL}

Quantities == {0, 10, 40}

Balances == {0, 500, 100000}

StoreNames ==
  {<<"A">>, <<"B">>, LowHangingFruit, <<"<color=red>", "Low Hanging Fruit", "</color>">>}

Currencies == {"Gold", "Silver"}

CurrencyFilters == {{}, {"Gold"}}

Offer(item, price, buying, qty) ==
  [ItemName |-> item, Price |-> price, Buying |-> buying, Quantity |-> qty]

Store(id, name, balance, currency, enabled, offers) ==
  [Id |-> id, Name |-> name, Balance |-> balance, CurrencyName |-> currency,
   Enabled |-> enabled, AllOffers |-> offers]

Snapshot(stores) == [Failed |-> FALSE, Stores |-> stores]

\* one seller and one buyer of one item: every price and quantity, the buyer's funds
PriceSnapshots ==
  {Snapshot(<<Store(1, <<"A">>, 100000, "Gold", TRUE,
                    <<Offer("Iron Bar", ps, FALSE, qs)>>),
              Store(2, <<"B">>, bb, "Gold", TRUE,
                    <<Offer("Iron Bar", pb, TRUE, qb)>>)>>) :
     ps \in Prices, qs \in Quantities, pb \in Prices, qb \in Quantities,
     bb \in Balances}

StoreHeaders ==
  [Name : StoreNames, Balance : Balances, CurrencyName : Currencies, Enabled : BOOLEAN]

\* one seller and one buyer of one item: every name, balance, currency and
\* enabled flag of both stores, in both orders
HeaderSnapshots ==
  {Snapshot(IF sellerFirst
            THEN <<Store(1, hs.Name, hs.Balance, hs.CurrencyName, hs.Enabled,
                         <<Offer("Iron Bar", 20, FALSE, 40)>>),
                   Store(2, hb.Name, hb.Balance, hb.CurrencyName, hb.Enabled,
                         <<Offer("Iron Bar", 50, TRUE, 40)>>)>>
            ELSE <<Store(1, hb.Name, hb.Balance, hb.CurrencyName, hb.Enabled,
                         <<Offer("Iron Bar", 50, TRUE, 40)>>),
                   Store(2, hs.Name, hs.Balance, hs.CurrencyName, hs.Enabled,
                         <<Offer("Iron Bar", 20, FALSE, 40)>>)>>) :
     hs \in StoreHeaders, hb \in StoreHeaders, sellerFirst \in BOOLEAN}

MultiOffers ==
  {Offer(i, p, FALSE, 40) : i \in {"Iron Bar", "Waste"}, p \in {20, 30}}
    \cup {Offer(i, 50, TRUE, q) : i \in {"Iron Bar", "Waste"}, q \in {10, 40}}

\* several offers of two items, dealt in turn to two stores
MultiSnapshots ==
  {Snapshot(<<Store(1, <<"A">>, 100000, "Gold", TRUE,
                    SelectSeq([k \in 1..((MaxOffers + 1) \div 2) |-> os[2 * k - 1]],
                              LAMBDA o : TRUE)),
              Store(2, <<"B">>, 100000, "Gold", TRUE,
                    SelectSeq([k \in 1..(MaxOffers \div 2) |-> os[2 * k]],
                              LAMBDA o : TRUE))>>) :
     os \in [1..MaxOffers -> MultiOffers]}

\* a store giving an item away and a store wanting it: the second store's name
\* is the first's with or without markup, or another name; it may hold a second
\* buying offer
FreeSnapshots ==
  {Snapshot(<<Store(1, <<"A">>, 100000, "Gold", e1,
                    <<Offer("Waste", ps, FALSE, qs)>>),
              Store(2, n2, 100000, "Gold", e2,
                    <<Offer("Waste", pb, TRUE, qb)>>
                      \o (IF second THEN <<Offer("Waste", 20, TRUE, 10)>> ELSE <<>>))>>) :
     e1 \in BOOLEAN, e2 \in BOOLEAN,
     n2 \in {<<"B">>, <<"<color=red>", "A", "</color>">>},
     ps \in {0, 20}, qs \in {0, 10, 500},
     pb \in {0, 5, SENTINEL}, qb \in {0, 100}, second \in BOOLEAN}

\* two asking prices and two bids for one item, and a third store that sells it
\* too, may be disabled and may trade in another currency
SpreadSnapshots ==
  {Snapshot(<<Store(1, <<"A">>, 100000, "Gold", TRUE,
                    <<Offer("Iron Bar", 20, FALSE, qs), Offer("Iron Bar", 30, FALSE, 40)>>),
              Store(2, <<"B">>, 100000, "Gold", TRUE,
                    <<Offer("Iron Bar", 25, TRUE, qb), Offer("Iron Bar", 50, TRUE, 10)>>),
              Store(3, <<"C">>, 0, c3, e3,
                    <<Offer("Iron Bar", p3, FALSE, 10)>>)>>) :
     qs \in Quantities, qb \in Quantities, e3 \in BOOLEAN, p3 \in {0, 20, 30},
     c3 \in Currencies}

\* how many items the busy market snapshots trade
MaxItems == 12

TradedItems ==
  <<"Reinforced Concrete", "Composite Lumber", "Corrugated Steel", "Flat Steel",
    "Framed Glass", "Hewn Log", "Mortared Stone", "Iron Bar", "Copper Bar",
    "Gold Bar", "Steel Bar", "Cotton Fabric", "Nylon Fabric", "Wool Fabric">>

\* a busy market: one store sells each of the first n items, another buys them
\* all at a higher price; the stores have short or long names
BusySnapshots ==
  {Snapshot(<<Store(1, names[1], 100000, "Gold", TRUE,
                    [k \in 1..n |-> Offer(TradedItems[k], 20, FALSE, 40)]),
              Store(2, names[2], 100000, "Gold", TRUE,
                    [k \in 1..n |-> Offer(TradedItems[k], 50, TRUE, 40)])>>) :
     n \in 0..Min2(MaxItems, Len(TradedItems)),
     names \in {<<<<"A">>, <<"B">>>>,
                <<<<"<color=red>", "Grand Central Trading Company", "</color>">>,
                  <<"Northern Frontier Supply Depot">>>>}}

Snapshots ==
  PriceSnapshots \cup HeaderSnapshots \cup MultiSnapshots \cup FreeSnapshots
    \cup SpreadSnapshots \cup BusySnapshots

(***************************************************************************)
(* The analysis runs                                                       *)
(***************************************************************************)
NoOutput ==
  /\ arbitrage' = <<>>
  /\ report' = <<>>
  /\ crafting_opportunities' = <<>>
  /\ profession_opportunities' = <<>>

\* generate_report.analyze_arbitrage(currency_filter)
GenerateReport ==
  \E cf \in CurrencyFilters :
    LET data == fetch_data
    IN /\ pc = "idle"
       /\ pc' = "generate_report"
       /\ currency_filter' = cf
       /\ IF data = Unavailable
          THEN outcome' = "failed" /\ NoOutput
          ELSE LET stores == filter_by_currency(data.Stores, cf)
               IN /\ outcome' = "ok"
                  /\ arbitrage' = report_arbitrage(stores)
                  /\ report' = sort_by_total_profit(
                                 high_profit(report_arbitrage(stores),
                                             REPORT_MIN_PROFIT_THRESHOLD))
                  /\ UNCHANGED <<crafting_opportunities, profession_opportunities>>
       /\ UNCHANGED <<api, recipes_api, monitor, chat>>

\* discord_bot.analyze_arbitrage()
DiscordBotReport ==
  LET data == fetch_data
  IN /\ pc = "idle"
     /\ pc' = "discord_bot"
     /\ currency_filter' = {}
     /\ IF data = Unavailable
        THEN outcome' = "failed" /\ NoOutput
        ELSE /\ outcome' = "ok"
             /\ arbitrage' = plain_arbitrage(data.Stores)
             /\ report' = sort_by_total_profit(
                            high_profit(plain_arbitrage(data.Stores),
                                        BOT_MIN_PROFIT_THRESHOLD))
             /\ UNCHANGED <<crafting_opportunities, profession_opportunities>>
     /\ UNCHANGED <<api, recipes_api, monitor, chat>>

\* analyze_stores.py; without the endpoint and without a local file it exits
AnalyzeStores ==
  LET data == fetch_data
  IN /\ pc = "idle"
     /\ pc' = "analyze_stores"
     /\ currency_filter' = {}
     /\ IF data = Unavailable
        THEN outcome' = "exit" /\ NoOutput
        ELSE /\ outcome' = "ok"
             /\ arbitrage' = plain_arbitrage(data.Stores)
             /\ report' = sort_by_total_profit(
                            high_profit(plain_arbitrage(data.Stores),
                                        BOT_MIN_PROFIT_THRESHOLD))
             /\ UNCHANGED <<crafting_opportunities, profession_opportunities>>
     /\ UNCHANGED <<api, recipes_api, monitor, chat>>

\* DealMonitor.analyze_opportunities()
MonitorAnalyze ==
  LET data == fetch_data
  IN /\ pc = "idle"
     /\ pc' = "monitor_deals"
     /\ currency_filter' = {}
     /\ IF data = Unavailable
        THEN outcome' = "failed" /\ NoOutput
        ELSE /\ outcome' = "ok"
             /\ arbitrage' = monitor_arbitrage(data.Stores)
             /\ report' = sort_by_total_profit(monitor_arbitrage(data.Stores))
             /\ UNCHANGED <<crafting_opportunities, profession_opportunities>>
     /\ UNCHANGED <<api, recipes_api, monitor, chat>>

\* detailed_arbitrage.find_detailed_arbitrage(load_data())
DetailedArbitrage ==
  LET data == fetch_data
  IN /\ pc = "idle"
     /\ pc' = "detailed_arbitrage"
     /\ currency_filter' = {}
     /\ IF data = Unavailable
        THEN outcome' = "exit" /\ NoOutput
        ELSE /\ outcome' = "ok"
             /\ arbitrage' = detailed_pairs(data.Stores)
             /\ report' = find_detailed_arbitrage(data.Stores)
             /\ UNCHANGED <<crafting_opportunities, profession_opportunities>>
     /\ UNCHANGED <<api, recipes_api, monitor, chat>>

\* detailed_arbitrage.find_free_items_arbitrage(load_data())
FreeItemsArbitrage ==
  LET data == fetch_data
  IN /\ pc = "idle"
     /\ pc' = "free_items"
     /\ currency_filter' = {}
     /\ IF data = Unavailable
        THEN outcome' = "exit" /\ NoOutput
        ELSE /\ outcome' = "ok"
             /\ arbitrage' = free_pairs(data.Stores)
             /\ report' = find_free_items_arbitrage(data.Stores)
             /\ UNCHANGED <<crafting_opportunities, profession_opportunities>>
     /\ UNCHANGED <<api, recipes_api, monitor, chat>>

(***************************************************************************)
(* The chat bot: discord_bot.py.  A text is known by the lengths of its    *)
(* parts; every emoji and arrow of a literal is written as one "*".        *)
(***************************************************************************)
\* Discord's message limit, as the bot applies it
CHUNK_SIZE == 2000

\* high_profit_arbitrage[:10]
TOP_SHOWN == 10

RECURSIVE Digits(_)
\* len(str(n)) of a natural number
Digits(n) == IF n < 10 THEN 1 ELSE 1 + Digits(n \div 10)

\* len(f"{x:.2f}") of an amount of tenths
money_len(v) == Digits(v \div 10) + Len(".00")

\* len(f"{x:.0f}") of a non-negative fraction: rounded half to even
rounded_len(x) ==
  LET q == x.num \div x.den
      r == x.num % x.den
  IN Digits(IF 2 * r > x.den \/ (2 * r = x.den /\ q % 2 = 1) THEN q + 1 ELSE q)

\* len() of a cleaned store name
name_len(name) == SumSeq([i \in 1..Len(name) |-> Len(name[i])])

\* the five lines of the i-th opportunity of the message
record_len(i, opp) ==
  Len("**") + Digits(i) + Len(". ") + Len(opp.item) + Len("**") + 1
    + Len("* $") + money_len(opp.buy_price) + Len(" * $") + money_len(opp.sell_price)
    + Len(" ($") + money_len(opp.total_profit) + Len(" profit)") + 1
    + Len("* Buy from: ") + name_len(opp.buy_store) + Len(" (qty: ")
    + Digits(opp.buy_qty) + Len(")") + 1
    + Len("* Sell to: ") + name_len(opp.sell_store) + Len(" (qty: ")
    + Digits(opp.sell_qty) + Len(")") + 1
    + Len("* Max trade: ") + Digits(opp.max_trade_qty) + Len(" units, ")
    + rounded_len(opp.margin) + Len("% margin") + 2

\* the two heading lines
heading_len(n) ==
  Len("* **Market Arbitrage Report** - ") + Len("2026-01-01 00:00:00") + 1
    + Len("Found ") + Digits(n) + Len(" opportunities with >=$")
    + Digits(BOT_MIN_PROFIT_THRESHOLD \div 10) + Len(" profit:") + 2

\* the message of discord_bot.analyze_arbitrage(), as its parts in order
format_message(data) ==
  IF data = Unavailable
  THEN <<[kind |-> "failure", len |-> Len("* Failed to fetch market data")]>>
  ELSE LET high_profit_arbitrage ==
             sort_by_total_profit(high_profit(plain_arbitrage(data.Stores),
                                              BOT_MIN_PROFIT_THRESHOLD))
           n == Len(high_profit_arbitrage)
       IN <<[kind |-> "heading", len |-> heading_len(n)]>>
            \o (IF n = 0
                THEN <<[kind |-> "nothing",
                        len  |-> Len("No profitable arbitrage opportunities found.")]>>
                ELSE [i \in 1..Min2(n, TOP_SHOWN) |->
                        [kind |-> "record",
                         len  |-> record_len(i, high_profit_arbitrage[i])]]
                       \o (IF n > TOP_SHOWN
                           THEN <<[kind |-> "more",
                                   len  |-> Len("... and ") + Digits(n - TOP_SHOWN)
                                              + Len(" more opportunities") + 1]>>
                           ELSE <<>>))

\* len(report)
message_len(message) == SumSeq([i \in 1..Len(message) |-> message[i].len])

\* [report[i:i+2000] for i in range(0, len(report), 2000)], or the whole report:
\* each message sent is the slice of the report from `start` up to `stop`
send_in_chunks(message) ==
  LET n == message_len(message)
  IN IF n > CHUNK_SIZE
     THEN [k \in 1..((n + CHUNK_SIZE - 1) \div CHUNK_SIZE) |->
             [start |-> (k - 1) * CHUNK_SIZE, stop |-> Min2(k * CHUNK_SIZE, n)]]
     ELSE <<[start |-> 0, stop |-> n]>>

\* what MarketBot does with a report, on a command or on the hour
SendReport(handler) ==
  LET data == fetch_data
      message == format_message(data)
  IN /\ pc = "idle"
     /\ pc' = handler
     /\ currency_filter' = {}
     /\ IF data = Unavailable
        THEN outcome' = "failed" /\ NoOutput
        ELSE /\ outcome' = "ok"
             /\ arbitrage' = plain_arbitrage(data.Stores)
             /\ report' = sort_by_total_profit(
                            high_profit(plain_arbitrage(data.Stores),
                                        BOT_MIN_PROFIT_THRESHOLD))
             /\ UNCHANGED <<crafting_opportunities, profession_opportunities>>
     /\ chat' = [message |-> message, sent |-> send_in_chunks(message)]
     /\ UNCHANGED <<api, recipes_api, monitor>>

\* MarketBot.on_message for !market, !report, !arbitrage or !deals
OnMessage == SendReport("on_message")

\* MarketBot.market_report, the hourly task
MarketReport == SendReport("market_report")

\* the process ends; the next run starts with nothing kept
Finish ==
  /\ pc \notin {"idle", "check_deals"}
  /\ pc' = "idle"
  /\ outcome' = "none"
  /\ currency_filter' = {}
  /\ NoOutput
  /\ chat' = NothingSent
  /\ UNCHANGED <<api, recipes_api, monitor>>

Init ==
  /\ api \in Snapshots \cup {Unavailable}
  /\ recipes_api = Unavailable
  /\ pc = "idle"
  /\ outcome = "none"
  /\ currency_filter = {}
  /\ arbitrage = <<>>
  /\ report = <<>>
  /\ crafting_opportunities = <<>>
  /\ profession_opportunities = <<>>
  /\ monitor = DealMonitor_init
  /\ chat = NothingSent

Next ==
  \/ GenerateReport
  \/ DiscordBotReport
  \/ AnalyzeStores
  \/ MonitorAnalyze
  \/ DetailedArbitrage
  \/ FreeItemsArbitrage
  \/ OnMessage
  \/ MarketReport
  \/ Finish

Spec == Init /\ [][Next]_vars

(***************************************************************************)
(* Properties of the arbitrage analyses                                    *)
(***************************************************************************)
BestPairRuns == {"generate_report", "discord_bot", "analyze_stores", "monitor_deals"}

ArbitrageRuns == BestPairRuns \cup {"detailed_arbitrage", "free_items"}

\* the store a reported opportunity sells to, by the field each analysis uses
SellStoreOf(o) ==
  CASE pc \in BestPairRuns -> o.sell_store
    [] pc = "detailed_arbitrage" -> o.sell_to_store
    [] pc = "free_items" -> o.sell_to

SellQtyOf(o) ==
  CASE pc \in BestPairRuns -> o.sell_qty
    [] pc = "detailed_arbitrage" -> o.sell_quantity_demand
    [] pc = "free_items" -> o.sell_demand

BuyQtyOf(o) ==
  CASE pc \in BestPairRuns -> o.buy_qty
    [] pc = "detailed_arbitrage" -> o.buy_quantity_available
    [] pc = "free_items" -> o.free_quantity

BuyPriceOf(o) == IF pc = "free_items" THEN 0 ELSE o.buy_price

\* C1: every opportunity the best-pair analysis produces has
\* total_profit = (sell_price - buy_price) * max_trade_qty and
\* max_trade_qty <= min(seller quantity, buyer quantity); in generate_report
\* max_trade_qty is also <= floor(balance of the buyer's store / buyer price).
C1_TotalProfitAndTradeQuantity ==
  pc \in BestPairRuns =>
    \A i \in 1..Len(arbitrage) :
      LET o == arbitrage[i]
      IN /\ o.total_profit = (o.sell_price - o.buy_price) * o.max_trade_qty
         /\ o.max_trade_qty <= Min2(o.buy_qty, o.sell_qty)
         /\ pc = "generate_report" =>
              o.max_trade_qty
                <= FloorDiv(api.Stores[o.sell_owner].Balance, o.sell_price)

C3_ExcludedBuyerNeverReported ==
  pc \in ArbitrageRuns =>
    \A i \in 1..Len(report) : SellStoreOf(report[i]) \notin EXCLUDED_BUYER_STORES

\* C4: no reported opportunity has a disabled store as source or destination.
C4_DisabledStoresContributeNothing ==
  pc \in ArbitrageRuns =>
    \A i \in 1..Len(report) :
      /\ api.Stores[report[i].buy_owner].Enabled
      /\ api.Stores[report[i].sell_owner].Enabled

\* C5: no reported opportunity has as source or destination an offer of
\* quantity 0 or of price >= 999999.
C5_InertOffersNeverReported ==
  pc \in ArbitrageRuns =>
    \A i \in 1..Len(report) :
      /\ BuyQtyOf(report[i]) > 0
      /\ SellQtyOf(report[i]) > 0
      /\ BuyPriceOf(report[i]) < SENTINEL
      /\ report[i].sell_price < SENTINEL

\* where an item first appears in the snapshot the run read
FirstListing(item) ==
  LET listings == Listings(filter_by_currency(api.Stores, currency_filter))
  IN CHOOSE k \in 1..Len(listings) :
       /\ listings[k].item = item
       /\ \A j \in 1..(k - 1) : listings[j].item # item

\* C6: the reported list is ordered by non-increasing total profit, and the
\* opportunities of one total profit are in the order they were produced,
\* which for a best-pair analysis is the order the items first appear in.
C6_SortedDescendingAndStable ==
  (pc \in ArbitrageRuns /\ outcome = "ok") =>
    /\ \A i, j \in 1..Len(report) :
         i < j => report[i].total_profit >= report[j].total_profit
    /\ \A i \in 1..Len(report) :
         SelectSeq(report, LAMBDA o : o.total_profit = report[i].total_profit)
           = SelectSeq(arbitrage, LAMBDA o : o.total_profit = report[i].total_profit)
    /\ pc \in BestPairRuns =>
         \A i, j \in 1..Len(arbitrage) :
           i < j => FirstListing(arbitrage[i].item) < FirstListing(arbitrage[j].item)

\* two opportunities of equal total profit were reported
C6_Witness ==
  /\ pc \in BestPairRuns
  /\ Len(report) = 2
  /\ report[1].total_profit = report[2].total_profit
  /\ report[1].item # report[2].item

(***************************************************************************)
(* Crafting: crafting_analyzer.py and profession_analyzer.py               *)
(***************************************************************************)
\* crafting_analyzer.py:9, MIN_CRAFTING_PROFIT = 1
MIN_CRAFTING_PROFIT == 10
\* crafting_analyzer.py:10
MIN_INGREDIENT_QUANTITY == 50
\* crafting_analyzer.py:11
MIN_RECIPE_BATCHES == 5
\* crafting_analyzer.py:248, max(craft_time, 0.1) with times in tenths of a second
MIN_CRAFT_TIME == 1

\* crafting_analyzer.py:129-135
TagNames == {"Wood", "Wood Board", "Lumber", "Rock", "Oil"}

tag_items(tag) ==
  CASE tag = "Wood" -> <<"Lumber", "Board">>
    [] tag = "Wood Board" -> <<"Board">>
    [] tag = "Lumber" -> <<"Lumber">>
    [] tag = "Rock" -> <<"Stone", "Granite", "Limestone">>
    [] tag = "Oil" -> <<"Oil", "Flaxseed Oil">>

\* recipe keys of the catalogue that contain 'skill book' or 'research paper'
DeniedRecipeKeys == {"Mining Skill Book", "Masonry Research Paper"}

\* offers that survive `price >= 999999 or quantity <= 0: continue`
priced_offer(o) == ~(o.price >= SENTINEL \/ o.qty <= 0)

\* the seller with the most stock, <<>> for None
largest_buy(priced, item) ==
  LET buy_prices == sellers_of(priced, item)
  IN IF buy_prices = <<>> THEN <<>>
     ELSE <<buy_prices[CHOOSE i \in 1..Len(buy_prices) :
                         \A j \in 1..Len(buy_prices) : buy_prices[j].qty <= buy_prices[i].qty]>>

\* best_prices[item]['buy']: the cheapest seller, <<>> for None
best_buy(priced, item) ==
  LET buy_prices == sellers_of(priced, item)
  IN IF buy_prices = <<>> THEN <<>> ELSE <<min_by_price(buy_prices)>>

\* best_prices[item]['all_buyers']: the buyers outside the exclusion list,
\* highest price first
all_buyers_of(priced, item) ==
  LET filtered_sell_prices == buyers_of(priced, item, EXCLUDED_BUYER_STORES)
  IN StableSortDesc(filtered_sell_prices, KeyPrice(filtered_sell_prices))

get_market_prices(stores) == SelectSeq(Listings(stores), priced_offer)

RECURSIVE SumQty(_)
SumQty(buyers) ==
  IF buyers = <<>> THEN 0 ELSE Head(buyers).qty + SumQty(Tail(buyers))

RECURSIVE SumField(_, _)
SumField(s, f) ==
  IF s = <<>> THEN 0 ELSE Head(s)[f] + SumField(Tail(s), f)

\* the first candidate that has a seller, whatever its price
first_sellable_candidate(priced, candidates) ==
  LET sellable == SelectSeq(candidates, LAMBDA c : best_buy(priced, c) # <<>>)
  IN IF sellable = <<>> THEN <<>> ELSE <<sellable[1]>>

\* the first candidate of strictly least cheapest-seller price; <<>> when no
\* candidate has a seller
cheapest_candidate(priced, candidates) ==
  LET sellable == SelectSeq(candidates, LAMBDA c : best_buy(priced, c) # <<>>)
      price(c) == best_buy(priced, c)[1].price
  IN IF sellable = <<>> THEN <<>>
     ELSE <<sellable[CHOOSE i \in 1..Len(sellable) :
                       /\ \A j \in 1..Len(sellable) :
                            price(sellable[j]) >= price(sellable[i])
                       /\ \A j \in 1..(i - 1) :
                            price(sellable[j]) > price(sellable[i])]>>

\* any stock is enough
any_quantity(available_qty, amount_needed) == TRUE

\* the gate without the stock for MIN_RECIPE_BATCHES batches
minimum_stock_only(available_qty, amount_needed) ==
  ~(available_qty < MIN_INGREDIENT_QUANTITY)

\* the quantity gate of the conservative analysis
enough_quantity(available_qty, amount_needed) ==
  ~(available_qty < Max2(MIN_INGREDIENT_QUANTITY, amount_needed * MIN_RECIPE_BATCHES))

\* the quantity gate applied in both analyses
gated_ingredient(priced, item, amount_needed, conservative) ==
  LET offer == best_buy(priced, item)[1]
  IN IF ~enough_quantity(offer.qty, amount_needed)
     THEN [status |-> "insufficient"]
     ELSE LET priced_at == [status        |-> "ok",
                            name          |-> item,
                            amount        |-> amount_needed,
                            unit_price    |-> offer.price,
                            total_cost    |-> offer.price * amount_needed,
                            store         |-> offer.store,
                            owner         |-> offer.owner,
                            available_qty |-> offer.qty]
          IN IF conservative
             THEN [max_batches |-> FloorDiv(offer.qty, amount_needed)] @@ priced_at
             ELSE priced_at

\* the ingredient at its cheapest seller; only the conservative analysis
\* computes max_batches = available_qty // amount_needed
priced_ingredient(priced, item, amount_needed, conservative) ==
  LET offer == best_buy(priced, item)[1]
  IN IF conservative /\ ~enough_quantity(offer.qty, amount_needed)
     THEN [status |-> "insufficient"]
     ELSE LET priced_at == [status        |-> "ok",
                            name          |-> item,
                            amount        |-> amount_needed,
                            unit_price    |-> offer.price,
                            total_cost    |-> offer.price * amount_needed,
                            store         |-> offer.store,
                            owner         |-> offer.owner,
                            available_qty |-> offer.qty]
          IN IF conservative
             THEN [max_batches |-> FloorDiv(offer.qty, amount_needed)] @@ priced_at
             ELSE priced_at

\* one ingredient of a variant: priced, missing or insufficient
resolve_ingredient(priced, ingredient, conservative) ==
  LET ingredient_name ==
        IF ingredient.IsSpecificItem THEN ingredient.Name ELSE ingredient.Tag
      amount_needed == ingredient.Ammount
  IN IF ~ingredient.IsSpecificItem /\ ingredient.Tag # ""
     THEN IF ingredient.Tag \in TagNames
          THEN LET cheapest_item == cheapest_candidate(priced, tag_items(ingredient.Tag))
               IN IF cheapest_item # <<>>
                  THEN priced_ingredient(priced, cheapest_item[1], amount_needed,
                                         conservative)
                  ELSE [status |-> "missing"]
          ELSE [status |-> "missing"]
     ELSE IF best_buy(priced, ingredient_name) # <<>>
          THEN priced_ingredient(priced, ingredient_name, amount_needed, conservative)
          ELSE [status |-> "missing"]

\* one product of a variant: its buyers, or missing
resolve_product(priced, product, conservative) ==
  LET all_buyers == all_buyers_of(priced, product.Name)
      total_demand == SumQty(all_buyers)
  IN IF all_buyers = <<>> THEN [status |-> "missing"]
     ELSE IF conservative /\ total_demand < MIN_RECIPE_BATCHES
     THEN [status |-> "missing"]
     ELSE [status       |-> "ok",
           name         |-> product.Name,
           amount       |-> product.Ammount,
           best_price   |-> all_buyers[1].price,
           best_store   |-> all_buyers[1].store,
           best_demand  |-> all_buyers[1].qty,
           all_buyers   |-> all_buyers,
           total_demand |-> total_demand]

\* the craft time used as it comes
raw_craft_time(craft_time) == craft_time

\* max(craft_time, 0.1)
floor_craft_time(craft_time) == Max2(craft_time, MIN_CRAFT_TIME)

\* the variant's cost and revenue, <<>> when it is skipped
resolve(priced, recipe, variant, conservative) ==
  LET ingredient_details ==
        [i \in 1..Len(variant.Ingredients) |->
           resolve_ingredient(priced, variant.Ingredients[i], conservative)]
      product_details ==
        [i \in 1..Len(variant.Products) |->
           resolve_product(priced, variant.Products[i], conservative)]
      ingredient_cost == SumField(ingredient_details, "total_cost")
      total_revenue ==
        SumSeq([i \in 1..Len(product_details) |->
                  product_details[i].best_price * product_details[i].amount])
      profit == total_revenue - ingredient_cost
  IN IF variant.Ingredients = <<>> \/ variant.Products = <<>> THEN <<>>
     ELSE IF \E i \in 1..Len(ingredient_details) : ingredient_details[i].status # "ok"
     THEN <<>>
     ELSE IF \E i \in 1..Len(product_details) : product_details[i].status # "ok"
     THEN <<>>
     ELSE IF ~(profit > 0) THEN <<>>
     ELSE <<[recipe             |-> recipe.Key,
             variant            |-> variant.Name,
             ingredient_cost    |-> ingredient_cost,
             revenue            |-> total_revenue,
             profit             |-> profit,
             margin             |-> IF ingredient_cost > 0
                                    THEN divide(profit * 100, ingredient_cost)
                                    ELSE Frac(0, 1),
             profit_per_second  |-> divide(profit, floor_craft_time(recipe.BaseCraftTime)),
             ingredient_details |-> ingredient_details,
             product_details    |-> product_details,
             skill_needs        |-> recipe.SkillNeeds,
             craft_time         |-> recipe.BaseCraftTime]>>

\* the buyer is given all it wants, whatever remains
uncapped_batches(remaining, wants) == wants

\* min(remaining_ingredient_batches, batches_buyer_wants)
batches_to_sell(remaining, wants) == Min2(remaining, wants)

\* the whole ingredient cost charged to every unit sold
profit_without_amortizing(buyer, amount, batches, units, ingredient_cost) ==
  (buyer.price - ingredient_cost) * amount * batches * units

\* the amortized profit of selling `batches` batches of one product to one
\* buyer, times the recipe's product units (the denominator of the total)
profit_this_buyer(buyer, amount, batches, units, ingredient_cost) ==
  (buyer.price * units - ingredient_cost) * amount * batches

RECURSIVE cascade(_, _, _, _, _)
\* one product's buyers, best price first, filled from the remaining batches;
\* `sold` lists the batches sold to each buyer the loop reached
cascade(buyers, amount, remaining, units, ingredient_cost) ==
  IF buyers = <<>> \/ remaining <= 0 THEN [sold |-> <<>>, num |-> 0]
  ELSE LET buyer == Head(buyers)
           batches_buyer_wants == FloorDiv(buyer.qty, amount)
           batches == batches_to_sell(remaining, batches_buyer_wants)
           rest == cascade(Tail(buyers), amount, remaining - batches, units,
                           ingredient_cost)
       IN [sold |-> <<batches>> \o rest.sold,
           num  |-> (IF batches > 0
                     THEN profit_this_buyer(buyer, amount, batches, units,
                                            ingredient_cost)
                     ELSE 0) + rest.num]

SeqMin(s) == CHOOSE x \in {s[i] : i \in 1..Len(s)} : \A i \in 1..Len(s) : x <= s[i]

\* the first product's count alone
SeqFirst0(s) == IF s = <<>> THEN 0 ELSE s[1]

SeqMax0(s) == SetMax({0} \cup {s[i] : i \in 1..Len(s)})

\* crafting_analyzer.py:266-303: the totals added to a priced opportunity
with_cascade(opp) ==
  LET max_batches_by_ingredients ==
        SeqMin([i \in 1..Len(opp.ingredient_details) |->
                  opp.ingredient_details[i].max_batches])
      units == SumField(opp.product_details, "amount")
      fills == [i \in 1..Len(opp.product_details) |->
                  cascade(opp.product_details[i].all_buyers,
                          opp.product_details[i].amount,
                          max_batches_by_ingredients, units, opp.ingredient_cost)]
      max_batches_by_demand ==
        SeqMax0([i \in 1..Len(fills) |-> SumSeq(fills[i].sold)])
  IN [f \in {"total_possible_profit", "max_craftable_batches",
             "max_batches_by_ingredients", "max_batches_by_demand", "batches_sold"} |->
        CASE f = "total_possible_profit" ->
               Frac(SumSeq([i \in 1..Len(fills) |-> fills[i].num]), units)
          [] f = "max_craftable_batches" ->
               Min2(max_batches_by_ingredients, max_batches_by_demand)
          [] f = "max_batches_by_ingredients" -> max_batches_by_ingredients
          [] f = "max_batches_by_demand" -> max_batches_by_demand
          [] f = "batches_sold" -> [i \in 1..Len(fills) |-> fills[i].sold]]
     @@ opp

RECURSIVE demand_profit(_, _, _, _)
\* profession_analyzer.py:230-237: every buyer of one product is filled
demand_profit(buyers, amount, units, ingredient_cost) ==
  IF buyers = <<>> THEN 0
  ELSE LET batches_buyer_wants == FloorDiv(Head(buyers).qty, amount)
       IN (IF batches_buyer_wants > 0
           THEN profit_this_buyer(Head(buyers), amount, batches_buyer_wants, units,
                                  ingredient_cost)
           ELSE 0) + demand_profit(Tail(buyers), amount, units, ingredient_cost)

with_demand(opp, profession) ==
  LET units == SumField(opp.product_details, "amount")
  IN [f \in {"total_possible_profit", "total_theoretical_demand", "profession"} |->
        CASE f = "total_possible_profit" ->
               Frac(SumSeq([i \in 1..Len(opp.product_details) |->
                              demand_profit(opp.product_details[i].all_buyers,
                                            opp.product_details[i].amount, units,
                                            opp.ingredient_cost)]), units)
          [] f = "total_theoretical_demand" ->
               SumField(opp.product_details, "total_demand")
          [] f = "profession" -> profession]
     @@ opp

\* key=lambda x: x['total_possible_profit']
KeyTotalPossibleProfit(s) == [i \in 1..Len(s) |-> s[i].total_possible_profit]

\* total_possible_profit >= threshold
reaches(opp, threshold) ==
  opp.total_possible_profit.num >= threshold * opp.total_possible_profit.den

skill_shown(skill_needs) ==
  \/ skill_needs = <<>>
  \/ \E i \in 1..Len(skill_needs) : skill_needs[i].Skill \in {"Mining", "Masonry"}

\* the priced opportunities of the conservative analysis, in catalogue order
crafting_candidates(recipes, priced) ==
  Concat([r \in 1..Len(recipes) |->
    IF recipes[r].Key \in DeniedRecipeKeys THEN <<>>
    ELSE Concat([v \in 1..Len(recipes[r].Variants) |->
           LET found == resolve(priced, recipes[r], recipes[r].Variants[v], TRUE)
           IN IF found # <<>> /\ skill_shown(recipes[r].SkillNeeds)
              THEN <<with_cascade(found[1])>> ELSE <<>>])])

\* an ingredient whose max_batches division raised
ingredient_raises(priced, ingredient) ==
  LET d == resolve_ingredient(priced, ingredient, TRUE)
  IN d.status = "ok" /\ ZeroDivisor(d.amount)

\* buyer['qty'] // prod['amount'] raises for the first buyer the loop reaches
product_raises(prod, remaining) ==
  /\ prod.all_buyers # <<>>
  /\ remaining > 0
  /\ ZeroDivisor(prod.amount)

\* analyze_crafting_profits raises ZeroDivisionError: in the resolution of an
\* ingredient of some variant, or else in the cascade of a priced opportunity
crafting_raises(recipes, priced) ==
  IF \E r \in 1..Len(recipes) : \E v \in 1..Len(recipes[r].Variants) :
       LET variant == recipes[r].Variants[v]
       IN /\ recipes[r].Key \notin DeniedRecipeKeys
          /\ variant.Ingredients # <<>> /\ variant.Products # <<>>
          /\ \E i \in 1..Len(variant.Ingredients) :
               ingredient_raises(priced, variant.Ingredients[i])
  THEN TRUE
  ELSE \E r \in 1..Len(recipes) : \E v \in 1..Len(recipes[r].Variants) :
         LET found == resolve(priced, recipes[r], recipes[r].Variants[v], TRUE)
         IN /\ recipes[r].Key \notin DeniedRecipeKeys
            /\ found # <<>>
            /\ skill_shown(recipes[r].SkillNeeds)
            /\ \E p \in 1..Len(found[1].product_details) :
                 product_raises(found[1].product_details[p],
                                SeqMin([i \in 1..Len(found[1].ingredient_details) |->
                                          found[1].ingredient_details[i].max_batches]))

\* analyze_profession_profits raises ZeroDivisionError: in the demand sum of a
\* profitable variant
profession_raises(recipes, priced) ==
  \E r \in 1..Len(recipes) : \E v \in 1..Len(recipes[r].Variants) :
    LET found == resolve(priced, recipes[r], recipes[r].Variants[v], FALSE)
    IN /\ recipes[r].Key \notin DeniedRecipeKeys
       /\ recipes[r].SkillNeeds # <<>>
       /\ found # <<>>
       /\ \E p \in 1..Len(found[1].product_details) :
            product_raises(found[1].product_details[p], 1)

analyze_crafting_profits(recipes, stores) ==
  LET priced == get_market_prices(stores)
      all == crafting_candidates(recipes, priced)
  IN IF priced = <<>> THEN <<>>
     ELSE LET kept == SelectSeq(all, LAMBDA opp : reaches(opp, MIN_CRAFTING_PROFIT))
          IN StableSortDesc(kept, KeyTotalPossibleProfit(kept))

\* the opportunities of the profession analysis, in catalogue order, each with
\* the profession it is filed under
analyze_profession_profits(recipes, stores) ==
  LET priced == get_market_prices(stores)
  IN IF priced = <<>> THEN <<>>
     ELSE Concat([r \in 1..Len(recipes) |->
       IF recipes[r].Key \in DeniedRecipeKeys \/ recipes[r].SkillNeeds = <<>> THEN <<>>
       ELSE Concat([v \in 1..Len(recipes[r].Variants) |->
              LET found == resolve(priced, recipes[r], recipes[r].Variants[v], FALSE)
              IN IF found # <<>>
                 THEN <<with_demand(found[1], recipes[r].SkillNeeds[1].Skill)>>
                 ELSE <<>>])])

\* what an index past the end of a list leaves in place of the report
IndexError == [raised |-> "IndexError"]

RECURSIVE SumFrac(_)
\* sum(...) of quotients
SumFrac(s) ==
  IF s = <<>> THEN Frac(0, 1)
  ELSE LET rest == SumFrac(Tail(s))
       IN Frac(Head(s).num * rest.den + rest.num * Head(s).den, Head(s).den * rest.den)

\* max(seq, key=total_possible_profit): the first element of greatest total
max_by_total_possible_profit(s) ==
  LET Gt(a, b) == a.total_possible_profit.num * b.total_possible_profit.den
                    > b.total_possible_profit.num * a.total_possible_profit.den
  IN s[CHOOSE i \in 1..Len(s) :
         /\ \A j \in 1..Len(s) : ~Gt(s[j], s[i])
         /\ \A j \in 1..(i - 1) : Gt(s[i], s[j])]

\* profession_totals: one entry per profession that has a recipe reaching
\* MIN_PROFESSION_PROFIT, in the order the professions were filed
profession_totals(opportunities) ==
  LET professions == Dedup([k \in 1..Len(opportunities) |-> opportunities[k].profession])
      entry(profession) ==
        LET profitable_opps ==
              SelectSeq(opportunities,
                        LAMBDA opp : /\ opp.profession = profession
                                     /\ reaches(opp, MIN_PROFESSION_PROFIT))
            total_profit == SumFrac(KeyTotalPossibleProfit(profitable_opps))
        IN IF profitable_opps = <<>> THEN <<>>
           ELSE <<[profession            |-> profession,
                   total_profit          |-> total_profit,
                   recipe_count          |-> Len(profitable_opps),
                   avg_profit_per_recipe |->
                     Frac(total_profit.num, total_profit.den * Len(profitable_opps)),
                   best_opportunity      |-> max_by_total_possible_profit(profitable_opps),
                   all_opportunities     |-> profitable_opps]>>
  IN Concat([p \in 1..Len(professions) |-> entry(professions[p])])

\* key=lambda x: x[1]['total_profit']
KeyProfessionTotal(s) == [i \in 1..Len(s) |-> s[i].total_profit]

\* format_profession_report: the ranking the message lists, or the exception
\* of the summary line that names sorted_professions[0]
format_profession_report(opportunities) ==
  IF opportunities = <<>> THEN [ranking |-> <<>>]
  ELSE LET totals == profession_totals(opportunities)
           sorted_professions == StableSortDesc(totals, KeyProfessionTotal(totals))
       IN IF sorted_professions = <<>> THEN IndexError
          ELSE [ranking |-> sorted_professions]

(***************************************************************************)
(* Markets and recipe catalogues for the crafting analyses                 *)
(***************************************************************************)
\* buyers of the main product in a crafting market
MaxBuyers == 2

Ingredient(specific, name, amount) ==
  [IsSpecificItem |-> specific,
   Name           |-> IF specific THEN name ELSE "",
   Tag            |-> IF specific THEN "" ELSE name,
   Ammount        |-> amount]

Product(name, amount) == [Name |-> name, Ammount |-> amount]

Recipe(key, skills, ingredients, products) ==
  [Key |-> key, BaseCraftTime |-> 20,
   SkillNeeds |-> [i \in 1..Len(skills) |-> [Skill |-> skills[i], Level |-> 1]],
   Variants |-> <<[Name |-> key, Ingredients |-> ingredients, Products |-> products]>>]

\* a recipe crafted in no time
Instant(recipe) == [recipe EXCEPT !.BaseCraftTime = 0]

FirstIngredients ==
  {Ingredient(FALSE, "Wood", a) : a \in {2, 12}}
    \cup {Ingredient(FALSE, "Fiber", a) : a \in {2, 12}}
    \cup {Ingredient(TRUE, "Lumber", a) : a \in {2, 12}}

ProductLists ==
  {<<Product("Stone Axe", 1)>>, <<Product("Stone Axe", 2)>>,
   <<Product("Stone Axe", 1), Product("Wood Pulp", 1)>>}

Catalogues ==
  {[Recipes |-> <<Recipe("Stone Axe", <<"Masonry">>,
                         <<first, Ingredient(TRUE, "Iron Bar", 1)>>, products)>>] :
     first \in FirstIngredients, products \in ProductLists}
    \cup
  {[Recipes |-> <<Recipe(key, skills,
                         <<Ingredient(FALSE, "Wood", 2), Ingredient(TRUE, "Iron Bar", 1)>>,
                         <<Product("Stone Axe", 1)>>)>>] :
     key \in {"Stone Axe", "Mining Skill Book"},
     skills \in {<<>>, <<"Carpentry">>, <<"Carpentry", "Masonry">>}}
    \cup
  {[Recipes |-> <<Instant(Recipe("Stone Axe", <<"Masonry">>,
                                 <<Ingredient(TRUE, "Lumber", 2),
                                   Ingredient(TRUE, "Iron Bar", 1)>>,
                                 <<Product("Stone Axe", 1)>>))>>]}
    \cup
  {[Recipes |-> <<Recipe("Stone Axe", <<"Masonry">>,
                         <<Ingredient(TRUE, "Lumber", lumber),
                           Ingredient(TRUE, "Iron Bar", 1)>>,
                         <<Product("Stone Axe", 1), Product("Wood Pulp", pulp)>>)>>] :
     lumber \in {0, 2}, pulp \in {0, 1}}
    \cup
  {[Recipes |-> IF axe_first THEN <<axe[1], pulp[1]>> ELSE <<pulp[1], axe[1]>>] :
     axe_first \in BOOLEAN,
     axe \in {<<Recipe("Stone Axe", <<"Masonry">>,
                       <<Ingredient(TRUE, "Lumber", 2), Ingredient(TRUE, "Iron Bar", 1)>>,
                       <<Product("Stone Axe", 1)>>)>>},
     pulp \in {<<Recipe("Wood Pulp", <<skill>>,
                        <<Ingredient(TRUE, "Lumber", 2)>>,
                        <<Product("Wood Pulp", 1)>>)>> : skill \in {"Masonry", "Carpentry"}}}

\* (price, quantity) of the seller of each ingredient, <<>> for no seller
LumberSellers == {<<>>, <<10, 40>>, <<10, 200>>, <<0, 200>>}

BoardSellers == {<<>>, <<5, 55>>, <<10, 200>>}

IronBarSellers == {<<>>, <<20, 200>>, <<0, 200>>}

PulpBuyers == {<<>>, <<10, 30>>}

\* (price, quantity, store) of a buyer of the main product
AxeBuyers ==
  {<<100, 20, <<"B">> >>, <<30, 20, <<"C">> >>, <<100, 3, <<"D">> >>,
   <<60, 7, LowHangingFruit>>}

AxeBuyerLists == UNION {[1..n -> AxeBuyers] : n \in 0..MaxBuyers}

SellOffers(item, pq) ==
  IF pq = <<>> THEN <<>> ELSE <<Offer(item, pq[1], FALSE, pq[2])>>

BuyOffers(item, pq) ==
  IF pq = <<>> THEN <<>> ELSE <<Offer(item, pq[1], TRUE, pq[2])>>

\* two stores selling Iron Bar, the cheaper or the first with little stock
RivalSnapshots ==
  {Snapshot(<<Store(1, <<"A">>, 100000, "Gold", TRUE,
                    <<Offer("Lumber", 10, FALSE, 200), Offer("Iron Bar", 20, FALSE, q1)>>),
              Store(2, <<"B">>, 100000, "Gold", TRUE,
                    <<Offer("Iron Bar", p2, FALSE, 200), Offer("Stone Axe", 100, TRUE, 20)>>)>>) :
     q1 \in {10, 200}, p2 \in {20, 30}}

\* one store selling the ingredients and buying the by-product, then one store
\* per buyer of the main product; or the rival sellers
CraftSnapshots ==
  {Snapshot(<<Store(1, <<"A">>, 100000, "Gold", TRUE,
                    SellOffers("Lumber", lumber) \o SellOffers("Board", board)
                      \o SellOffers("Iron Bar", iron) \o BuyOffers("Wood Pulp", pulp))>>
            \o [b \in 1..Len(buyers) |->
                  Store(b + 1, buyers[b][3], 100000, "Gold", TRUE,
                        <<Offer("Stone Axe", buyers[b][1], TRUE, buyers[b][2])>>)]) :
     lumber \in LumberSellers, board \in BoardSellers, iron \in IronBarSellers,
     pulp \in PulpBuyers, buyers \in AxeBuyerLists}
    \cup RivalSnapshots

fetch_recipes == IF recipes_api = Unavailable THEN Unavailable ELSE recipes_api

\* crafting_analyzer.analyze_crafting_profits()
AnalyzeCrafting ==
  LET recipe_data == fetch_recipes
      data == fetch_data
  IN /\ pc = "idle"
     /\ pc' = "crafting"
     /\ currency_filter' = {}
     /\ IF recipe_data = Unavailable \/ data = Unavailable
        THEN outcome' = "failed" /\ NoOutput
        ELSE IF crafting_raises(recipe_data.Recipes, get_market_prices(data.Stores))
        THEN outcome' = "raised" /\ NoOutput
        ELSE /\ outcome' = "ok"
             /\ crafting_opportunities' =
                  analyze_crafting_profits(recipe_data.Recipes, data.Stores)
             /\ UNCHANGED <<arbitrage, report, profession_opportunities>>
     /\ UNCHANGED <<api, recipes_api, monitor, chat>>

\* profession_analyzer.py run as a script: analyze_profession_profits(), then
\* format_profession_report() of its result
AnalyzeProfession ==
  LET recipe_data == fetch_recipes
      data == fetch_data
  IN /\ pc = "idle"
     /\ pc' = "profession"
     /\ currency_filter' = {}
     /\ IF recipe_data = Unavailable \/ data = Unavailable
        THEN outcome' = "failed" /\ NoOutput
        ELSE IF profession_raises(recipe_data.Recipes, get_market_prices(data.Stores))
        THEN outcome' = "raised" /\ NoOutput
        ELSE /\ outcome' = "ok"
             /\ profession_opportunities' =
                  analyze_profession_profits(recipe_data.Recipes, data.Stores)
             /\ report' = format_profession_report(profession_opportunities')
             /\ UNCHANGED <<arbitrage, crafting_opportunities>>
     /\ UNCHANGED <<api, recipes_api, monitor, chat>>

InitCraft ==
  /\ api \in CraftSnapshots \cup {Unavailable}
  /\ recipes_api \in Catalogues \cup {Unavailable}
  /\ pc = "idle"
  /\ outcome = "none"
  /\ currency_filter = {}
  /\ arbitrage = <<>>
  /\ report = <<>>
  /\ crafting_opportunities = <<>>
  /\ profession_opportunities = <<>>
  /\ monitor = DealMonitor_init
  /\ chat = NothingSent

NextCraft ==
  \/ AnalyzeCrafting
  \/ AnalyzeProfession
  \/ Finish

SpecCraft == InitCraft /\ [][NextCraft]_vars

(***************************************************************************)
(* Every analysis that computes a margin or a profit per second, over      *)
(* arbitrage markets and over crafting markets with at most one buyer of   *)
(* the main product                                                        *)
(***************************************************************************)
InitMargins ==
  /\ \/ /\ api \in PriceSnapshots \cup SpreadSnapshots
        /\ recipes_api = Unavailable
     \/ /\ api \in {craft \in CraftSnapshots : Len(craft.Stores) <= 2}
        /\ recipes_api \in Catalogues
  /\ pc = "idle"
  /\ outcome = "none"
  /\ currency_filter = {}
  /\ arbitrage = <<>>
  /\ report = <<>>
  /\ crafting_opportunities = <<>>
  /\ profession_opportunities = <<>>
  /\ monitor = DealMonitor_init
  /\ chat = NothingSent

NextMargins ==
  \/ GenerateReport
  \/ DiscordBotReport
  \/ AnalyzeStores
  \/ MonitorAnalyze
  \/ DetailedArbitrage
  \/ AnalyzeCrafting
  \/ AnalyzeProfession
  \/ Finish

SpecMargins == InitMargins /\ [][NextMargins]_vars

(***************************************************************************)
(* Properties of the crafting analyses                                     *)
(***************************************************************************)
\* the places <<store, offer>> of the snapshot where `item` is really for sale
MarketSellers(item) ==
  {ij \in UNION {{<<i, j>> : j \in 1..Len(api.Stores[i].AllOffers)} :
                   i \in 1..Len(api.Stores)} :
     LET o == api.Stores[ij[1]].AllOffers[ij[2]]
     IN o.ItemName = item /\ ~o.Buying /\ o.Quantity > 0 /\ o.Price < SENTINEL}

\* the places where a store outside the exclusion list really wants `item`
MarketBuyers(item) ==
  {ij \in UNION {{<<i, j>> : j \in 1..Len(api.Stores[i].AllOffers)} :
                   i \in 1..Len(api.Stores)} :
     LET o == api.Stores[ij[1]].AllOffers[ij[2]]
     IN /\ o.ItemName = item /\ o.Buying /\ o.Quantity > 0 /\ o.Price < SENTINEL
        /\ clean_store_name(api.Stores[ij[1]].Name) \notin EXCLUDED_BUYER_STORES}

OfferAt(ij) == api.Stores[ij[1]].AllOffers[ij[2]]

\* the places <<store, offer>> of the snapshot
OfferPlaces ==
  UNION {{<<i, j>> : j \in 1..Len(api.Stores[i].AllOffers)} : i \in 1..Len(api.Stores)}

CheapestPrice(item) ==
  CHOOSE p \in {OfferAt(ij).Price : ij \in MarketSellers(item)} :
    \A ij \in MarketSellers(item) : p <= OfferAt(ij).Price

\* the variants of the catalogue an opportunity names
VariantsNamed(opp) ==
  {rv \in UNION {{<<r, v>> : v \in 1..Len(recipes_api.Recipes[r].Variants)} :
                   r \in 1..Len(recipes_api.Recipes)} :
     /\ recipes_api.Recipes[rv[1]].Key = opp.recipe
     /\ recipes_api.Recipes[rv[1]].Variants[rv[2]].Name = opp.variant}

VariantAt(rv) == recipes_api.Recipes[rv[1]].Variants[rv[2]]

\* the detail record stands for a real seller's offer of what the ingredient asks
IngredientBacked(ingredient, d, gated) ==
  /\ d.amount = ingredient.Ammount
  /\ d.total_cost = d.unit_price * d.amount
  /\ IF ingredient.IsSpecificItem THEN d.name = ingredient.Name
     ELSE /\ ingredient.Tag \in TagNames
          /\ \E c \in 1..Len(tag_items(ingredient.Tag)) :
               d.name = tag_items(ingredient.Tag)[c]
  /\ \E ij \in MarketSellers(d.name) :
       /\ OfferAt(ij).Price = d.unit_price
       /\ gated => /\ OfferAt(ij).Quantity = d.available_qty
                   /\ d.available_qty >= MIN_INGREDIENT_QUANTITY
                   /\ d.available_qty >= d.amount * MIN_RECIPE_BATCHES

ProductBacked(product, d) ==
  /\ d.name = product.Name
  /\ d.amount = product.Ammount
  /\ \E ij \in MarketBuyers(product.Name) : OfferAt(ij).Price = d.best_price

\* every ingredient and product of the variant has its priced detail
FullyResolved(opp, gated) ==
  /\ VariantsNamed(opp) # {}
  /\ \A rv \in VariantsNamed(opp) :
       LET variant == VariantAt(rv)
       IN /\ Len(opp.ingredient_details) = Len(variant.Ingredients)
          /\ Len(opp.product_details) = Len(variant.Products)
          /\ \A i \in 1..Len(variant.Ingredients) :
               IngredientBacked(variant.Ingredients[i], opp.ingredient_details[i], gated)
          /\ \A i \in 1..Len(variant.Products) :
               ProductBacked(variant.Products[i], opp.product_details[i])
  /\ opp.ingredient_cost =
       SumSeq([i \in 1..Len(opp.ingredient_details) |->
                 opp.ingredient_details[i].unit_price * opp.ingredient_details[i].amount])
  /\ opp.revenue =
       SumSeq([i \in 1..Len(opp.product_details) |->
                 opp.product_details[i].best_price * opp.product_details[i].amount])

\* C7: a variant is in the crafting output only if each of its ingredients has
\* a seller (a specific item its own, a tag a known tag with a sellable
\* candidate) and, in the conservative analysis, passes the quantity gate, and
\* each of its products has a qualifying buyer; cost and revenue count every
\* ingredient and product at its real price.
C7_UnresolvedVariantsAreAbsent ==
  /\ (pc = "crafting" /\ outcome = "ok") =>
       \A k \in 1..Len(crafting_opportunities) :
         FullyResolved(crafting_opportunities[k], TRUE)
  /\ (pc = "profession" /\ outcome = "ok") =>
       \A k \in 1..Len(profession_opportunities) :
         FullyResolved(profession_opportunities[k], FALSE)

\* the conservative analysis ran over a variant whose first ingredient is an
\* unknown tag, whose other ingredient has a seller and whose product has demand
C7_Witness ==
  /\ pc = "crafting"
  /\ outcome = "ok"
  /\ crafting_opportunities = <<>>
  /\ recipes_api.Recipes[1].SkillNeeds # <<>>
  /\ recipes_api.Recipes[1].SkillNeeds[1].Skill = "Masonry"
  /\ recipes_api.Recipes[1].Variants[1].Ingredients[1].Tag = "Fiber"
  /\ MarketSellers("Iron Bar") # {}
  /\ \E ij \in MarketBuyers("Stone Axe") : OfferAt(ij).Quantity >= MIN_RECIPE_BATCHES

\* C8: in the conservative cascade no buyer of a product is sold more batches
\* than floor(buyer quantity / product amount), and the batches sold to the
\* buyers of one product never add up to more than max_batches_by_ingredients.
C8_CascadeWithinDemandAndSupply ==
  (pc = "crafting" /\ outcome = "ok") =>
    \A k \in 1..Len(crafting_opportunities) :
      LET opp == crafting_opportunities[k]
      IN /\ Len(opp.batches_sold) = Len(opp.product_details)
         /\ \A p \in 1..Len(opp.product_details) :
              LET prod == opp.product_details[p]
                  sold == opp.batches_sold[p]
              IN /\ Len(sold) <= Len(prod.all_buyers)
                 /\ \A b \in 1..Len(sold) :
                      /\ sold[b] >= 0
                      /\ sold[b] * prod.amount <= prod.all_buyers[b].qty
                 /\ SumSeq(sold) <= opp.max_batches_by_ingredients
         /\ \A i \in 1..Len(opp.ingredient_details) :
              opp.max_batches_by_ingredients * opp.ingredient_details[i].amount
                <= opp.ingredient_details[i].available_qty

\* the second buyer of a product got only what the ingredients left
C8_Witness ==
  /\ pc = "crafting"
  /\ \E k \in 1..Len(crafting_opportunities) :
       LET opp == crafting_opportunities[k]
       IN /\ Len(opp.batches_sold[1]) = 2
          /\ SumSeq(opp.batches_sold[1]) = opp.max_batches_by_ingredients
          /\ opp.batches_sold[1][2] > 0
          /\ opp.batches_sold[1][2] * opp.product_details[1].amount + opp.product_details[1].amount
               <= opp.product_details[1].all_buyers[2].qty

\* C9: an ingredient given by a tag of the table is priced at the least of the
\* cheapest seller prices of the tag's candidates that have a seller, and is
\* resolved to the first candidate, in table order, that has that price.
TagResolvedToCheapest(opp) ==
  \A rv \in VariantsNamed(opp) :
    \A i \in 1..Len(VariantAt(rv).Ingredients) :
      LET ingredient == VariantAt(rv).Ingredients[i]
          d == opp.ingredient_details[i]
          candidates == tag_items(ingredient.Tag)
          sellable == {c \in 1..Len(candidates) : MarketSellers(candidates[c]) # {}}
      IN (~ingredient.IsSpecificItem /\ ingredient.Tag \in TagNames) =>
           \E c \in sellable :
             /\ d.name = candidates[c]
             /\ d.unit_price = CheapestPrice(candidates[c])
             /\ \A e \in sellable : CheapestPrice(candidates[e]) >= d.unit_price
             /\ \A e \in sellable : e < c => CheapestPrice(candidates[e]) > d.unit_price

C9_TagResolvesToCheapestCandidate ==
  /\ (pc = "crafting" /\ outcome = "ok") =>
       \A k \in 1..Len(crafting_opportunities) :
         TagResolvedToCheapest(crafting_opportunities[k])
  /\ (pc = "profession" /\ outcome = "ok") =>
       \A k \in 1..Len(profession_opportunities) :
         TagResolvedToCheapest(profession_opportunities[k])

\* a reported recipe whose tag has two sellable candidates, the second cheaper
C9_Witness ==
  /\ pc = "crafting"
  /\ Len(crafting_opportunities) = 1
  /\ recipes_api.Recipes[1].Variants[1].Ingredients[1].Tag = "Wood"
  /\ MarketSellers("Lumber") # {}
  /\ MarketSellers("Board") # {}
  /\ crafting_opportunities[1].ingredient_details[1].name = "Board"

\* the claim's sum for one product: buyers in the listed order, each sold
\* min(remaining, floor(quantity / amount)) batches, times the product units
ClaimedProductProfit(prod, start, units, cost) ==
  LET n == Len(prod.all_buyers)
      wants(b) == prod.all_buyers[b].qty \div prod.amount
      remaining[b \in 0..n] ==
        IF b = 0 THEN start
        ELSE remaining[b - 1] - Min2(remaining[b - 1], wants(b))
      sold(b) == Min2(remaining[b - 1], wants(b))
  IN SumSeq([b \in 1..n |->
               (prod.all_buyers[b].price * units - cost) * prod.amount * sold(b)])

\* C10: total_possible_profit of a reported recipe is the sum over its products
\* and over each product's buyers, in descending price order, of
\* (price - ingredient cost / product units) * amount * batches sold, with
\* batches sold = min(remaining, floor(quantity / amount)) and remaining
\* starting at max_batches_by_ingredients; with one product and one buyer it
\* is unit profit * min(max_batches_by_ingredients, floor(demand / amount)).
C10_TotalPossibleProfitIsCascadeSum ==
  (pc = "crafting" /\ outcome = "ok") =>
    \A k \in 1..Len(crafting_opportunities) :
      LET opp == crafting_opportunities[k]
          units == SumSeq([p \in 1..Len(opp.product_details) |->
                             opp.product_details[p].amount])
          start == SeqMin([i \in 1..Len(opp.ingredient_details) |->
                             opp.ingredient_details[i].available_qty
                               \div opp.ingredient_details[i].amount])
      IN /\ opp.max_batches_by_ingredients = start
         /\ opp.total_possible_profit.den = units
         /\ opp.total_possible_profit.num =
              SumSeq([p \in 1..Len(opp.product_details) |->
                        ClaimedProductProfit(opp.product_details[p], start, units,
                                             opp.ingredient_cost)])
         /\ \A p \in 1..Len(opp.product_details) :
              LET buyers == opp.product_details[p].all_buyers
              IN /\ \A b \in 1..(Len(buyers) - 1) : buyers[b].price >= buyers[b + 1].price
                 /\ Len(buyers) = Cardinality(MarketBuyers(opp.product_details[p].name))
                 /\ \A b \in 1..Len(buyers) :
                      \E ij \in MarketBuyers(opp.product_details[p].name) :
                        /\ ij[1] = buyers[b].owner
                        /\ OfferAt(ij).Price = buyers[b].price
                        /\ OfferAt(ij).Quantity = buyers[b].qty
         /\ (Len(opp.product_details) = 1 /\ Len(opp.product_details[1].all_buyers) = 1) =>
              opp.total_possible_profit.num =
                opp.profit * units
                  * Min2(start, opp.product_details[1].all_buyers[1].qty
                                  \div opp.product_details[1].amount)

\* Stone Axe: 2 Lumber at 1.00 and 1 Iron Bar at 2.00, both in stock 200, one
\* buyer at 10.00 wanting 20: 100 batches by ingredients, 20 sold, 120.00
C10_Witness ==
  /\ pc = "crafting"
  /\ Len(crafting_opportunities) = 1
  /\ LET opp == crafting_opportunities[1]
     IN /\ opp.recipe = "Stone Axe"
        /\ opp.ingredient_cost = 40
        /\ opp.profit = 60
        /\ Len(opp.product_details[1].all_buyers) = 1
        /\ opp.max_batches_by_ingredients = 100
        /\ opp.max_craftable_batches = 20
        /\ opp.total_possible_profit = Frac(1200, 1)

(***************************************************************************)
(* Properties of the profession analysis                                   *)
(***************************************************************************)
VariantPlaces ==
  UNION {{<<r, v>> : v \in 1..Len(recipes_api.Recipes[r].Variants)} :
           r \in 1..Len(recipes_api.Recipes)}

\* the items that can stand for the ingredient and have a seller
Sources(ingredient) ==
  IF ingredient.IsSpecificItem
  THEN {n \in {ingredient.Name} : MarketSellers(n) # {}}
  ELSE IF ingredient.Tag \in TagNames
  THEN {n \in {tag_items(ingredient.Tag)[c] : c \in 1..Len(tag_items(ingredient.Tag))} :
          MarketSellers(n) # {}}
  ELSE {}

\* the least seller price over the ingredient's sources
SourcePrice(ingredient) ==
  CHOOSE p \in {CheapestPrice(n) : n \in Sources(ingredient)} :
    \A n \in Sources(ingredient) : p <= CheapestPrice(n)

BestBid(product) ==
  CHOOSE p \in {OfferAt(ij).Price : ij \in MarketBuyers(product.Name)} :
    \A ij \in MarketBuyers(product.Name) : p >= OfferAt(ij).Price

\* the variant can be priced, sold and crafted at a profit by some profession
DemandDriven(rv) ==
  LET recipe == recipes_api.Recipes[rv[1]]
      variant == VariantAt(rv)
  IN /\ recipe.Key \notin DeniedRecipeKeys
     /\ recipe.SkillNeeds # <<>>
     /\ variant.Ingredients # <<>> /\ variant.Products # <<>>
     /\ \A i \in 1..Len(variant.Ingredients) : Sources(variant.Ingredients[i]) # {}
     /\ \A i \in 1..Len(variant.Products) : MarketBuyers(variant.Products[i].Name) # {}
     /\ SumSeq([i \in 1..Len(variant.Products) |->
                  BestBid(variant.Products[i]) * variant.Products[i].Ammount])
          > SumSeq([i \in 1..Len(variant.Ingredients) |->
                      SourcePrice(variant.Ingredients[i]) * variant.Ingredients[i].Ammount])

\* every buyer of the product filled in full, times the product units
DemandProductProfit(prod, units, cost) ==
  SumSeq([b \in 1..Len(prod.all_buyers) |->
            (prod.all_buyers[b].price * units - cost) * prod.amount
              * (prod.all_buyers[b].qty \div prod.amount)])

\* C16: the profession analysis reports a recipe whatever the stock of its
\* ingredients (each ingredient only needs a seller), and total_possible_profit
\* is the sum over products and over all their buyers of (buyer price -
\* ingredient cost / product units) * amount * floor(buyer quantity / amount),
\* with no cap from the ingredients.
C16_ProfessionIgnoresIngredientStock ==
  (pc = "profession" /\ outcome = "ok") =>
    /\ Len(profession_opportunities) = Cardinality({rv \in VariantPlaces : DemandDriven(rv)})
    /\ \A rv \in VariantPlaces :
         DemandDriven(rv) =>
           \E k \in 1..Len(profession_opportunities) :
             /\ profession_opportunities[k].recipe = recipes_api.Recipes[rv[1]].Key
             /\ profession_opportunities[k].variant = VariantAt(rv).Name
    /\ \A k \in 1..Len(profession_opportunities) :
         LET opp == profession_opportunities[k]
             units == SumSeq([p \in 1..Len(opp.product_details) |->
                                opp.product_details[p].amount])
         IN /\ opp.total_possible_profit.den = units
            /\ opp.total_possible_profit.num =
                 SumSeq([p \in 1..Len(opp.product_details) |->
                           DemandProductProfit(opp.product_details[p], units,
                                               opp.ingredient_cost)])
            /\ \A p \in 1..Len(opp.product_details) :
                 LET buyers == opp.product_details[p].all_buyers
                 IN /\ Len(buyers) = Cardinality(MarketBuyers(opp.product_details[p].name))
                    /\ \A ij \in MarketBuyers(opp.product_details[p].name) :
                         \E b \in 1..Len(buyers) :
                           /\ buyers[b].owner = ij[1]
                           /\ buyers[b].price = OfferAt(ij).Price
                           /\ buyers[b].qty = OfferAt(ij).Quantity

\* Stone Axe from 2 Lumber and 1 Iron Bar with 40 Lumber on sale (20 batches,
\* below the stock gate) and two buyers wanting 20 each: all 40 are counted
C16_Witness ==
  /\ pc = "profession" /\ outcome = "ok"
  /\ Len(profession_opportunities) = 1
  /\ LET opp == profession_opportunities[1]
     IN /\ opp.ingredient_details[1].name = "Lumber"
        /\ opp.ingredient_details[1].amount = 2
        /\ opp.ingredient_details[1].available_qty = 40
        /\ opp.ingredient_details[1].available_qty < MIN_INGREDIENT_QUANTITY
        /\ Len(opp.product_details) = 1
        /\ opp.product_details[1].amount = 1
        /\ Len(opp.product_details[1].all_buyers) = 2
        /\ opp.product_details[1].total_demand = 40
        /\ opp.total_possible_profit.num
             = opp.total_possible_profit.den
                 * (SumSeq([b \in 1..2 |-> opp.product_details[1].all_buyers[b].price * 20])
                      - opp.ingredient_cost * 40)

(***************************************************************************)
(* Properties of the quotients                                             *)
(***************************************************************************)
\* the margin of a crafting opportunity: 0 at no cost, else profit / cost * 100
CraftMarginGuarded(opp) ==
  /\ opp.margin # ZeroDivisionError
  /\ opp.ingredient_cost = 0 => opp.margin = Frac(0, 1)
  /\ opp.ingredient_cost > 0 =>
       opp.margin = Frac(opp.profit * 100, opp.ingredient_cost)

\* profit per second divides the profit by max(craft time, 0.1)
CraftTimeFloored(opp) ==
  /\ opp.profit_per_second # ZeroDivisionError
  /\ opp.profit_per_second.num = opp.profit
  /\ opp.profit_per_second.den = Max2(opp.craft_time, MIN_CRAFT_TIME)
  /\ opp.profit_per_second.den > 0

\* C17: margin and profit per second never raise a division error: the margin
\* is 0 when the cost basis (the seller's price in the arbitrage analyses, the
\* ingredient cost in the crafting analyses) is 0, and profit per second
\* divides by max(craft time, 0.1), for every input, craft time 0 and cost 0
\* included.
C17_QuotientsNeverRaise ==
  /\ (pc \in BestPairRuns /\ outcome = "ok") =>
       \A k \in 1..Len(arbitrage) :
         LET opp == arbitrage[k]
         IN /\ opp.margin # ZeroDivisionError
            /\ opp.buy_price = 0 => opp.margin = Frac(0, 1)
            /\ opp.buy_price > 0 =>
                 opp.margin = Frac(opp.profit * 100, opp.buy_price)
  /\ (pc = "detailed_arbitrage" /\ outcome = "ok") =>
       \A k \in 1..Len(arbitrage) :
         LET opp == arbitrage[k]
         IN /\ opp.profit_margin_percent # ZeroDivisionError
            /\ opp.roi_percent # ZeroDivisionError
            /\ opp.profit_margin_percent = Frac(opp.profit_per_unit * 100, opp.buy_price)
            /\ opp.buy_price > 0
  /\ (pc = "crafting" /\ outcome = "ok") =>
       \A k \in 1..Len(crafting_opportunities) :
         /\ CraftMarginGuarded(crafting_opportunities[k])
         /\ CraftTimeFloored(crafting_opportunities[k])
  /\ (pc = "profession" /\ outcome = "ok") =>
       \A k \in 1..Len(profession_opportunities) :
         /\ CraftMarginGuarded(profession_opportunities[k])
         /\ CraftTimeFloored(profession_opportunities[k])

\* a recipe crafted in no time from ingredients given away: margin 0, profit
\* per second = profit / 0.1
C17_Witness ==
  /\ pc = "crafting" /\ outcome = "ok"
  /\ \E k \in 1..Len(crafting_opportunities) :
       LET opp == crafting_opportunities[k]
       IN /\ opp.craft_time = 0
          /\ opp.ingredient_cost = 0
          /\ opp.margin = Frac(0, 1)
          /\ opp.profit_per_second = Frac(opp.profit, MIN_CRAFT_TIME)

\* an item given away by its seller, reported by a best-pair analysis
C17_FreeSellerReached ==
  /\ pc \in BestPairRuns /\ outcome = "ok"
  /\ \E k \in 1..Len(arbitrage) : arbitrage[k].buy_price = 0 /\ arbitrage[k].margin = Frac(0, 1)

(***************************************************************************)
(* Properties of the best-pair selection                                   *)
(***************************************************************************)
\* the stores the run reads: generate_report drops the other currencies
StoreRead(i) ==
  pc = "generate_report" =>
    (currency_filter = {} \/ api.Stores[i].CurrencyName \in currency_filter)

\* selling offers of the item with quantity > 0, in the stores the run reads
StockedSellers(item) ==
  {ij \in OfferPlaces :
     /\ StoreRead(ij[1])
     /\ OfferAt(ij).ItemName = item /\ ~OfferAt(ij).Buying /\ OfferAt(ij).Quantity > 0}

\* buying offers of the item with quantity > 0, in the stores the run reads;
\* generate_report keeps the excluded stores out of its buyers
WantingBuyers(item) ==
  {ij \in OfferPlaces :
     /\ StoreRead(ij[1])
     /\ OfferAt(ij).ItemName = item /\ OfferAt(ij).Buying /\ OfferAt(ij).Quantity > 0
     /\ pc = "generate_report" =>
          clean_store_name(api.Stores[ij[1]].Name) \notin EXCLUDED_BUYER_STORES}

\* snapshot order of two places
Earlier(kl, ij) == kl[1] < ij[1] \/ (kl[1] = ij[1] /\ kl[2] < ij[2])

\* C18: in the best-pair analyses the source of an item's opportunity is a
\* selling offer of least price among the sellers with quantity > 0 and its
\* destination a buying offer of greatest price among the buyers with
\* quantity > 0, the first in snapshot order on a tie; no item has more than
\* one opportunity.
C18_BestPairIsFirstCheapestAndFirstDearest ==
  (pc \in BestPairRuns /\ outcome = "ok") =>
    /\ \A k \in 1..Len(arbitrage) : \A l \in 1..Len(arbitrage) :
         k # l => arbitrage[k].item # arbitrage[l].item
    /\ \A k \in 1..Len(arbitrage) :
         LET opp == arbitrage[k]
         IN /\ \E ij \in StockedSellers(opp.item) :
                 /\ api.Stores[ij[1]].Id = opp.buy_owner
                 /\ OfferAt(ij).Price = opp.buy_price
                 /\ OfferAt(ij).Quantity = opp.buy_qty
                 /\ \A kl \in StockedSellers(opp.item) :
                      /\ OfferAt(kl).Price >= opp.buy_price
                      /\ Earlier(kl, ij) => OfferAt(kl).Price > opp.buy_price
            /\ \E ij \in WantingBuyers(opp.item) :
                 /\ api.Stores[ij[1]].Id = opp.sell_owner
                 /\ OfferAt(ij).Price = opp.sell_price
                 /\ OfferAt(ij).Quantity = opp.sell_qty
                 /\ \A kl \in WantingBuyers(opp.item) :
                      /\ OfferAt(kl).Price <= opp.sell_price
                      /\ Earlier(kl, ij) => OfferAt(kl).Price < opp.sell_price

\* the cheapest offer has no stock, two stocked sellers ask the same least
\* price and the first of them is the source; two buyers want the item
C18_Witness ==
  /\ pc \in BestPairRuns /\ outcome = "ok"
  /\ Len(arbitrage) = 1
  /\ LET opp == arbitrage[1]
     IN /\ Cardinality({ij \in StockedSellers(opp.item) :
                          OfferAt(ij).Price = opp.buy_price}) >= 2
        /\ \E ij \in OfferPlaces :
             /\ OfferAt(ij).ItemName = opp.item /\ ~OfferAt(ij).Buying
             /\ OfferAt(ij).Quantity = 0 /\ OfferAt(ij).Price < opp.buy_price
        /\ Cardinality(WantingBuyers(opp.item)) >= 2

(***************************************************************************)
(* Properties of the balance-aware report                                  *)
(***************************************************************************)
\* the balance of the store that owns the selected buying offer
BuyerStoreBalance(opp) ==
  LET i == CHOOSE i \in 1..Len(api.Stores) : api.Stores[i].Id = opp.sell_owner
  IN api.Stores[i].Balance

\* C19: in the balance-aware report buyer_insufficient_funds is true exactly
\* when floor(buyer store balance / buyer price) < min(seller quantity, buyer
\* quantity), and then max_trade_qty is that floor; otherwise max_trade_qty is
\* min(seller quantity, buyer quantity).
C19_FundsFlagAndTradeQuantity ==
  (pc = "generate_report" /\ outcome = "ok") =>
    \A k \in 1..Len(arbitrage) :
      LET opp == arbitrage[k]
          affordable == BuyerStoreBalance(opp) \div opp.sell_price
          wanted == Min2(opp.buy_qty, opp.sell_qty)
      IN /\ opp.sell_price > 0
         /\ opp.buyer_insufficient_funds <=> (affordable < wanted)
         /\ opp.max_trade_qty = (IF affordable < wanted THEN affordable ELSE wanted)

(***************************************************************************)
(* Properties of the batch limits                                          *)
(***************************************************************************)
\* floor(available quantity / amount needed) of the i-th ingredient
IngredientBatches(opp, i) ==
  opp.ingredient_details[i].available_qty \div opp.ingredient_details[i].amount

\* the cumulative batches sold in the cascade of the p-th product
CumulativeSold(opp, p) == SumSeq(opp.batches_sold[p])

\* C20: for every recipe the conservative analysis reports,
\* max_batches_by_ingredients is the least floor(available quantity / amount
\* needed) over its ingredients, max_batches_by_demand the greatest cumulative
\* number of batches sold over its products' cascades, and
\* max_craftable_batches the lesser of the two.
C20_BatchLimits ==
  (pc = "crafting" /\ outcome = "ok") =>
    \A k \in 1..Len(crafting_opportunities) :
      LET opp == crafting_opportunities[k]
          ingredients == 1..Len(opp.ingredient_details)
          products == 1..Len(opp.product_details)
      IN /\ \E i \in ingredients : opp.max_batches_by_ingredients = IngredientBatches(opp, i)
         /\ \A i \in ingredients : opp.max_batches_by_ingredients <= IngredientBatches(opp, i)
         /\ \E p \in products : opp.max_batches_by_demand = CumulativeSold(opp, p)
         /\ \A p \in products :
              /\ opp.max_batches_by_demand >= CumulativeSold(opp, p)
              /\ CumulativeSold(opp, p) =
                   Min2(opp.max_batches_by_ingredients,
                        SumSeq([b \in 1..Len(opp.product_details[p].all_buyers) |->
                                  opp.product_details[p].all_buyers[b].qty
                                    \div opp.product_details[p].amount]))
         /\ opp.max_craftable_batches =
              Min2(opp.max_batches_by_ingredients, opp.max_batches_by_demand)

\* two ingredients allowing different numbers of batches, two products whose cascades
\* sell fewer batches to the first than to the second
C20_Witness ==
  /\ pc = "crafting" /\ outcome = "ok"
  /\ \E k \in 1..Len(crafting_opportunities) :
       LET opp == crafting_opportunities[k]
       IN /\ Len(opp.product_details) = 2
          /\ IngredientBatches(opp, 1) # IngredientBatches(opp, 2)
          /\ CumulativeSold(opp, 1) < CumulativeSold(opp, 2)
          /\ opp.max_batches_by_demand = CumulativeSold(opp, 2)
          /\ opp.max_craftable_batches < opp.max_batches_by_ingredients

(***************************************************************************)
(* Properties of the free-item and all-pairwise analyses                   *)
(***************************************************************************)
\* (place of a free selling offer, place of a paying buying offer of the same
\* item in a different store), both stores enabled
FreePairs ==
  {pr \in OfferPlaces \X OfferPlaces :
     LET free == OfferAt(pr[1])
         other == OfferAt(pr[2])
     IN /\ pr[1][1] # pr[2][1]
        /\ api.Stores[pr[1][1]].Enabled
        /\ api.Stores[pr[2][1]].Enabled
        /\ ~free.Buying /\ free.Price = 0 /\ free.Quantity > 0
        /\ other.Buying /\ other.Price > 0 /\ other.Quantity > 0
        /\ other.ItemName = free.ItemName}

FreeEntryOf(e, pr) ==
  /\ e.item = OfferAt(pr[1]).ItemName
  /\ e.buy_owner = api.Stores[pr[1][1]].Id
  /\ e.sell_owner = api.Stores[pr[2][1]].Id
  /\ e.free_quantity = OfferAt(pr[1]).Quantity
  /\ e.sell_price = OfferAt(pr[2]).Price
  /\ e.sell_demand = OfferAt(pr[2]).Quantity

\* C11: find_free_items_arbitrage reports an entry for exactly every pair of an
\* enabled store selling an item at price 0 with quantity > 0 and a different
\* enabled store buying it at price > 0 with quantity > 0, each entry with
\* max_trade = min(free quantity, demand) and total_profit = price * max_trade.
C11_FreeItemsExactlyEveryPair ==
  (pc = "free_items" /\ outcome = "ok") =>
    /\ Len(report) = Cardinality(FreePairs)
    /\ \A pr \in FreePairs : \E k \in 1..Len(report) : FreeEntryOf(report[k], pr)
    /\ \A k \in 1..Len(report) :
         /\ \E pr \in FreePairs : FreeEntryOf(report[k], pr)
         /\ report[k].max_trade = Min2(report[k].free_quantity, report[k].sell_demand)
         /\ report[k].total_profit = report[k].sell_price * report[k].max_trade

(***************************************************************************)
(* Properties of the all-pairwise analysis                                 *)
(***************************************************************************)
\* an offer of an enabled store with quantity > 0 and 0 < price < 999999
ValidPlace(ij) ==
  /\ api.Stores[ij[1]].Enabled
  /\ OfferAt(ij).Quantity > 0
  /\ 0 < OfferAt(ij).Price
  /\ OfferAt(ij).Price < SENTINEL

\* (place of a selling offer, place of a buying offer of the same item), both
\* valid, the buyer paying more than the seller asks
DetailedPairs ==
  {pr \in OfferPlaces \X OfferPlaces :
     /\ ValidPlace(pr[1]) /\ ValidPlace(pr[2])
     /\ ~OfferAt(pr[1]).Buying /\ OfferAt(pr[2]).Buying
     /\ OfferAt(pr[1]).ItemName = OfferAt(pr[2]).ItemName
     /\ OfferAt(pr[2]).Price > OfferAt(pr[1]).Price}

DetailedEntryOf(e, pr) ==
  /\ e.item = OfferAt(pr[1]).ItemName
  /\ e.buy_owner = api.Stores[pr[1][1]].Id
  /\ e.sell_owner = api.Stores[pr[2][1]].Id
  /\ e.buy_price = OfferAt(pr[1]).Price
  /\ e.buy_quantity_available = OfferAt(pr[1]).Quantity
  /\ e.sell_price = OfferAt(pr[2]).Price
  /\ e.sell_quantity_demand = OfferAt(pr[2]).Quantity

\* C15: find_detailed_arbitrage returns exactly one entry for every pair of a
\* valid selling offer and a valid buying offer of the same item, both from
\* enabled stores, with buyer price > seller price, and no other entry; each
\* entry has max_trade_quantity = min(seller quantity, buyer quantity),
\* total_profit = profit_per_unit * max_trade_quantity, investment = seller
\* price * max_trade_quantity and roi_percent = total_profit / investment * 100.
C15_DetailedExactlyEveryPair ==
  (pc = "detailed_arbitrage" /\ outcome = "ok") =>
    /\ Len(report) = Cardinality(DetailedPairs)
    /\ \A pr \in DetailedPairs : \E k \in 1..Len(report) : DetailedEntryOf(report[k], pr)
    /\ \A k \in 1..Len(report) :
         LET e == report[k]
         IN /\ \E pr \in DetailedPairs : DetailedEntryOf(e, pr)
            /\ e.profit_per_unit = e.sell_price - e.buy_price
            /\ e.max_trade_quantity = Min2(e.buy_quantity_available, e.sell_quantity_demand)
            /\ e.total_profit = e.profit_per_unit * e.max_trade_quantity
            /\ e.investment_required = e.buy_price * e.max_trade_quantity
            /\ e.investment_required > 0
            /\ e.roi_percent.den > 0
            /\ e.roi_percent.num * e.investment_required
                 = e.total_profit * 100 * e.roi_percent.den

\* entries for several pairs of one item, while a pair whose buyer pays no more
\* than the seller asks and a valid offer of a disabled store are left out
C15_Witness ==
  /\ pc = "detailed_arbitrage" /\ outcome = "ok"
  /\ Len(report) >= 3
  /\ report[1].item = report[2].item
  /\ \E pr \in (OfferPlaces \X OfferPlaces) \ DetailedPairs :
       /\ ValidPlace(pr[1]) /\ ValidPlace(pr[2])
       /\ ~OfferAt(pr[1]).Buying /\ OfferAt(pr[2]).Buying
       /\ OfferAt(pr[2]).Price <= OfferAt(pr[1]).Price
  /\ \E ij \in OfferPlaces :
       /\ ~api.Stores[ij[1]].Enabled
       /\ OfferAt(ij).Quantity > 0
       /\ 0 < OfferAt(ij).Price /\ OfferAt(ij).Price < SENTINEL

(***************************************************************************)
(* The deal monitor: monitor_deals.py                                      *)
(***************************************************************************)
\* f"{opp['item']}_{opp['buy_store']}_{opp['sell_store']}": the three texts
\* joined by underscores; a store name may hold underscores of its own
create_deal_id(opp) ==
  <<opp.item>> \o <<"_">> \o opp.buy_store \o <<"_">> \o opp.sell_store

\* DealMonitor.analyze_opportunities(): the good deals, best first; none when
\* the fetch failed
analyze_opportunities(data) ==
  IF data = Unavailable THEN <<>>
  ELSE sort_by_total_profit(monitor_arbitrage(data.Stores))

\* d[deal_id] = deal on a dict kept as its items in insertion order
dict_set(d, deal_id, deal) ==
  IF \E i \in 1..Len(d) : d[i].id = deal_id
  THEN [i \in 1..Len(d) |-> IF d[i].id = deal_id THEN [id |-> deal_id, deal |-> deal]
                            ELSE d[i]]
  ELSE Append(d, [id |-> deal_id, deal |-> deal])

RECURSIVE deals_map(_, _)
\* the dict built by assigning every deal of `deals` under its id, onto `d`
deals_map(d, deals) ==
  IF deals = <<>> THEN d
  ELSE deals_map(dict_set(d, create_deal_id(Head(deals)), Head(deals)), Tail(deals))

dict_keys(d) == {d[i].id : i \in 1..Len(d)}

dict_values(d) == [i \in 1..Len(d) |-> d[i].deal]

\* check_deals, but adding the current deals to the tracked ones
check_deals_merging(m, data) ==
  LET current_deals == analyze_opportunities(data)
      current_deals_map == deals_map(<<>>, current_deals)
      current_deal_ids == dict_keys(current_deals_map)
      new_deals ==
        dict_values(SelectSeq(current_deals_map,
                              LAMBDA e : e.id \notin dict_keys(m.tracked_deals)))
      completed_deals ==
        dict_values(SelectSeq(m.tracked_deals, LAMBDA e : e.id \notin current_deal_ids))
  IN IF m.startup
     THEN [tracked_deals   |-> deals_map(m.tracked_deals, current_deals),
           startup         |-> FALSE,
           first_check     |-> m.startup,
           tracked_before  |-> m.tracked_deals,
           previous_deals  |-> m.current_deals,
           current_deals   |-> current_deals,
           new_deals       |-> <<>>,
           completed_deals |-> <<>>]
     ELSE [tracked_deals   |-> deals_map(m.tracked_deals, current_deals),
           startup         |-> FALSE,
           first_check     |-> m.startup,
           tracked_before  |-> m.tracked_deals,
           previous_deals  |-> m.current_deals,
           current_deals   |-> current_deals,
           new_deals       |-> new_deals,
           completed_deals |-> completed_deals]

\* DealMonitor.check_deals() on the monitor `m` with the fetched `data`
check_deals(m, data) ==
  LET current_deals == analyze_opportunities(data)
      current_deals_map == deals_map(<<>>, current_deals)
      current_deal_ids == dict_keys(current_deals_map)
      new_deals ==
        dict_values(SelectSeq(current_deals_map,
                              LAMBDA e : e.id \notin dict_keys(m.tracked_deals)))
      completed_deals ==
        dict_values(SelectSeq(m.tracked_deals, LAMBDA e : e.id \notin current_deal_ids))
  IN IF m.startup
     THEN [tracked_deals   |-> deals_map(m.tracked_deals, current_deals),
           startup         |-> FALSE,
           first_check     |-> m.startup,
           tracked_before  |-> m.tracked_deals,
           previous_deals  |-> m.current_deals,
           current_deals   |-> current_deals,
           new_deals       |-> <<>>,
           completed_deals |-> <<>>]
     ELSE [tracked_deals   |-> current_deals_map,
           startup         |-> FALSE,
           first_check     |-> m.startup,
           tracked_before  |-> m.tracked_deals,
           previous_deals  |-> m.current_deals,
           current_deals   |-> current_deals,
           new_deals       |-> new_deals,
           completed_deals |-> completed_deals]

\* the ways Iron Bar can be on sale and wanted: seller and buyer store
IronBarRoutes == {"none", "A to B", "A_B to C", "A to B_C"}

\* Iron Bar along one route, Waste and Lumber from store A to store B
MonitorSnapshots ==
  {Snapshot(
     <<Store(1, <<"A">>, 100000, "Gold", TRUE,
             (IF route \in {"A to B", "A to B_C"}
              THEN <<Offer("Iron Bar", 20, FALSE, 40)>> ELSE <<>>)
               \o (IF waste > 0 THEN <<Offer("Waste", 20, FALSE, waste)>> ELSE <<>>)
               \o (IF lumber THEN <<Offer("Lumber", 20, FALSE, 40)>> ELSE <<>>)),
       Store(2, <<"B">>, 100000, "Gold", TRUE,
             (IF route = "A to B" THEN <<Offer("Iron Bar", 50, TRUE, 40)>> ELSE <<>>)
               \o (IF waste > 0 THEN <<Offer("Waste", 50, TRUE, waste)>> ELSE <<>>)
               \o (IF lumber THEN <<Offer("Lumber", 50, TRUE, 40)>> ELSE <<>>)),
       Store(3, <<"A", "_", "B">>, 100000, "Gold", TRUE,
             IF route = "A_B to C" THEN <<Offer("Iron Bar", 20, FALSE, 40)>> ELSE <<>>),
       Store(4, <<"C">>, 100000, "Gold", TRUE,
             IF route = "A_B to C" THEN <<Offer("Iron Bar", 50, TRUE, 40)>> ELSE <<>>),
       Store(5, <<"B", "_", "C">>, 100000, "Gold", TRUE,
             IF route = "A to B_C" THEN <<Offer("Iron Bar", 50, TRUE, 40)>> ELSE <<>>)>>) :
     route \in IronBarRoutes, waste \in {0, 10, 40}, lumber \in BOOLEAN}

\* one pass of DealMonitor.run's loop body up to the sleep
CheckDeals ==
  /\ pc = "idle"
  /\ pc' = "check_deals"
  /\ outcome' = IF fetch_data = Unavailable THEN "failed" ELSE "ok"
  /\ monitor' = check_deals(monitor, fetch_data)
  /\ UNCHANGED <<api, recipes_api, currency_filter, arbitrage, report,
                 crafting_opportunities, profession_opportunities, chat>>

\* time.sleep(CHECK_INTERVAL): the market moves on, what was printed scrolls away
Sleep ==
  /\ pc = "check_deals"
  /\ pc' = "idle"
  /\ outcome' = "none"
  /\ api' \in MonitorSnapshots \cup {Unavailable}
  /\ monitor' = [monitor EXCEPT !.first_check = FALSE,
                                !.tracked_before = <<>>, !.previous_deals = <<>>,
                                !.new_deals = <<>>, !.completed_deals = <<>>]
  /\ UNCHANGED <<recipes_api, currency_filter, arbitrage, report,
                 crafting_opportunities, profession_opportunities, chat>>

InitMonitor ==
  /\ api \in MonitorSnapshots \cup {Unavailable}
  /\ recipes_api = Unavailable
  /\ pc = "idle"
  /\ outcome = "none"
  /\ currency_filter = {}
  /\ arbitrage = <<>>
  /\ report = <<>>
  /\ crafting_opportunities = <<>>
  /\ profession_opportunities = <<>>
  /\ monitor = DealMonitor_init
  /\ chat = NothingSent

\* the monitor's loop, with the report functions run against the same endpoint
NextMonitor ==
  \/ CheckDeals
  \/ Sleep
  \/ GenerateReport
  \/ DiscordBotReport
  \/ Finish

SpecMonitor == InitMonitor /\ [][NextMonitor]_vars

(***************************************************************************)
(* Properties of the runs against a failing endpoint and of the monitor    *)
(***************************************************************************)
\* C12: when the store fetch fails, the run yields only the failure result: the
\* report functions produce no opportunity, and the deal monitor reports no
\* new and no completed deal and leaves its tracked deals as they were.
C12_FetchFailureGivesNoOutput ==
  api = Unavailable =>
    /\ pc \in {"generate_report", "discord_bot"} =>
         outcome = "failed" /\ arbitrage = <<>> /\ report = <<>>
    /\ pc = "check_deals" =>
         /\ outcome = "failed"
         /\ monitor.new_deals = <<>>
         /\ monitor.completed_deals = <<>>
         /\ monitor.tracked_deals = monitor.tracked_before

\* the key of a deal: item, source store, destination store
DealKey(deal) == <<deal.item, deal.buy_store, deal.sell_store>>

DealsIn(deals) == {deals[i] : i \in 1..Len(deals)}

KeysIn(deals) == {DealKey(deals[i]) : i \in 1..Len(deals)}

\* C13: on every check_deals call after the first, the deals reported as new
\* are exactly the current deals whose key (item, source store, destination
\* store) was not tracked by the previous run, the deals reported as completed
\* are exactly the previously tracked deals whose key is not current, and
\* afterwards the tracked deals are the current deals.
C13_NewAndCompletedAreSetDifferences ==
  (pc = "check_deals" /\ ~monitor.first_check) =>
    LET before == dict_values(monitor.tracked_before)
        current == monitor.current_deals
    IN /\ DealsIn(monitor.new_deals) =
            {d \in DealsIn(current) : DealKey(d) \notin KeysIn(before)}
       /\ DealsIn(monitor.completed_deals) =
            {d \in DealsIn(before) : DealKey(d) \notin KeysIn(current)}
       /\ DealsIn(dict_values(monitor.tracked_deals)) = DealsIn(current)

(***************************************************************************)
(* Properties of the chat delivery                                         *)
(***************************************************************************)
\* where the i-th part of the message begins
PartStart(message, i) == SumSeq([k \in 1..(i - 1) |-> message[k].len])

\* C14: a report longer than 2000 characters goes to chat as an ordered
\* sequence of chunks of at most 2000 characters each whose concatenation is
\* the report, and no chunk boundary falls inside an opportunity record.
C14_ChunksKeepRecordsWhole ==
  (pc \in {"on_message", "market_report"} /\ message_len(chat.message) > CHUNK_SIZE) =>
    LET sent == chat.sent
    IN /\ sent # <<>>
       /\ sent[1].start = 0
       /\ sent[Len(sent)].stop = message_len(chat.message)
       /\ \A k \in 1..Len(sent) :
            /\ sent[k].start < sent[k].stop
            /\ sent[k].stop - sent[k].start <= CHUNK_SIZE
            /\ k < Len(sent) => sent[k + 1].start = sent[k].stop
       /\ \A k \in 1..(Len(sent) - 1) :
            \A i \in 1..Len(chat.message) :
              chat.message[i].kind = "record" =>
                ~(/\ PartStart(chat.message, i) < sent[k].stop
                  /\ sent[k].stop < PartStart(chat.message, i) + chat.message[i].len)

(***************************************************************************)
(* Properties of the availability gate                                     *)
(***************************************************************************)
\* the first place, in snapshot order, where `item` is sold at its least price
CheapestOffer(item) ==
  CHOOSE ij \in MarketSellers(item) :
    \A kl \in MarketSellers(item) :
      /\ OfferAt(kl).Price >= OfferAt(ij).Price
      /\ Earlier(kl, ij) => OfferAt(kl).Price > OfferAt(ij).Price

\* the item the ingredient resolves to: its own name, or the first candidate
\* of the tag, in table order, of least cheapest price
ResolvedItem(ingredient) ==
  IF ingredient.IsSpecificItem THEN ingredient.Name
  ELSE LET candidates == tag_items(ingredient.Tag)
           c == CHOOSE c \in 1..Len(candidates) :
                  /\ candidates[c] \in Sources(ingredient)
                  /\ \A e \in 1..Len(candidates) :
                       candidates[e] \in Sources(ingredient) =>
                         /\ CheapestPrice(candidates[e]) >= CheapestPrice(candidates[c])
                         /\ e < c => CheapestPrice(candidates[e]) > CheapestPrice(candidates[c])
       IN candidates[c]

\* quantity >= max(MIN_INGREDIENT_QUANTITY, amount needed * MIN_RECIPE_BATCHES)
PassesGate(ij, amount) ==
  /\ OfferAt(ij).Quantity >= MIN_INGREDIENT_QUANTITY
  /\ OfferAt(ij).Quantity >= amount * MIN_RECIPE_BATCHES

\* the ingredient has a resolved offer and that offer is too small
TooSmall(ingredient) ==
  /\ Sources(ingredient) # {}
  /\ ~PassesGate(CheapestOffer(ResolvedItem(ingredient)), ingredient.Ammount)

\* another offer of the resolved item, or of another candidate, passes the gate
StockElsewhere(ingredient) ==
  \E n \in Sources(ingredient) : \E ij \in MarketSellers(n) :
    /\ ij # CheapestOffer(ResolvedItem(ingredient))
    /\ PassesGate(ij, ingredient.Ammount)

\* C21: in the conservative analysis every ingredient of a reported recipe is
\* resolved to a seller offer of quantity >= max(50, amount needed * 5); the
\* gate is applied to the single cheapest resolved offer, so a recipe is left
\* out when that offer is too small, even if another seller or another
\* candidate of the tag has enough stock.
C21_GateOnCheapestOfferOnly ==
  (pc = "crafting" /\ outcome = "ok") =>
    /\ \A k \in 1..Len(crafting_opportunities) :
         LET opp == crafting_opportunities[k]
         IN \A rv \in VariantsNamed(opp) :
              \A i \in 1..Len(VariantAt(rv).Ingredients) :
                LET d == opp.ingredient_details[i]
                    ij == CheapestOffer(ResolvedItem(VariantAt(rv).Ingredients[i]))
                IN /\ d.name = ResolvedItem(VariantAt(rv).Ingredients[i])
                   /\ d.owner = api.Stores[ij[1]].Id
                   /\ d.unit_price = OfferAt(ij).Price
                   /\ d.available_qty = OfferAt(ij).Quantity
                   /\ d.available_qty >= MIN_INGREDIENT_QUANTITY
                   /\ d.available_qty >= d.amount * MIN_RECIPE_BATCHES
    /\ \A rv \in VariantPlaces :
         (\E i \in 1..Len(VariantAt(rv).Ingredients) : TooSmall(VariantAt(rv).Ingredients[i]))
           => \A k \in 1..Len(crafting_opportunities) :
                rv \notin VariantsNamed(crafting_opportunities[k])

\* a recipe left out because the cheapest Iron Bar offer holds 10, although a
\* dearer seller holds 200, every other ingredient passing the gate
C21_Witness ==
  /\ pc = "crafting" /\ outcome = "ok"
  /\ crafting_opportunities = <<>>
  /\ \E rv \in VariantPlaces :
       /\ recipes_api.Recipes[rv[1]].Key \notin DeniedRecipeKeys
       /\ skill_shown(recipes_api.Recipes[rv[1]].SkillNeeds)
       /\ \A p \in 1..Len(VariantAt(rv).Products) :
            MarketBuyers(VariantAt(rv).Products[p].Name) # {}
       /\ \A i \in 1..Len(VariantAt(rv).Ingredients) : Sources(VariantAt(rv).Ingredients[i]) # {}
       /\ \E i \in 1..Len(VariantAt(rv).Ingredients) :
            LET ingredient == VariantAt(rv).Ingredients[i]
            IN /\ ingredient.IsSpecificItem
               /\ TooSmall(ingredient)
               /\ StockElsewhere(ingredient)
               /\ \A j \in 1..Len(VariantAt(rv).Ingredients) :
                    j # i => ~TooSmall(VariantAt(rv).Ingredients[j])

(***************************************************************************)
(* Properties of the crafting list                                         *)
(***************************************************************************)
\* the variant as the conservative analysis resolves it, with its totals;
\* <<>> when resolution fails or the unit profit is not positive
Resolved(rv) ==
  LET recipe == recipes_api.Recipes[rv[1]]
      found == resolve(get_market_prices(api.Stores), recipe, VariantAt(rv), TRUE)
  IN IF recipe.Key \in DeniedRecipeKeys \/ found = <<>> THEN <<>>
     ELSE <<with_cascade(found[1])>>

\* total_possible_profit of a is at least that of b
ProfitAtLeast(a, b) ==
  a.total_possible_profit.num * b.total_possible_profit.den
    >= b.total_possible_profit.num * a.total_possible_profit.den

\* the list holds only recipes of total_possible_profit >= MIN_CRAFTING_PROFIT,
\* in non-increasing order of it
ListReachesMinimumInOrder ==
  (pc = "crafting" /\ outcome = "ok") =>
    /\ \A k \in 1..Len(crafting_opportunities) :
         crafting_opportunities[k].total_possible_profit.num
           >= MIN_CRAFTING_PROFIT * crafting_opportunities[k].total_possible_profit.den
    /\ \A k \in 1..(Len(crafting_opportunities) - 1) :
         ProfitAtLeast(crafting_opportunities[k], crafting_opportunities[k + 1])

\* C22: every recipe in the list of analyze_crafting_profits has
\* total_possible_profit >= MIN_CRAFTING_PROFIT, every recipe that passed
\* resolution with positive unit profit and total_possible_profit >=
\* MIN_CRAFTING_PROFIT is in the list, and the list is in non-increasing order
\* of total_possible_profit.
C22_ListIsEveryQualifyingRecipe ==
  /\ ListReachesMinimumInOrder
  /\ (pc = "crafting" /\ outcome = "ok") =>
       \A rv \in VariantPlaces :
         (Resolved(rv) # <<>> /\ reaches(Resolved(rv)[1], MIN_CRAFTING_PROFIT)) =>
           \E k \in 1..Len(crafting_opportunities) :
             rv \in VariantsNamed(crafting_opportunities[k])

(***************************************************************************)
(* Properties of the balances read                                         *)
(***************************************************************************)
\* the balance of the store that owns the selected selling offer
SellerStoreBalance(opp) ==
  LET i == CHOOSE i \in 1..Len(api.Stores) : api.Stores[i].Id = opp.buy_owner
  IN api.Stores[i].Balance

\* C23: the balance that bounds the tradable quantity and sets the funds flag
\* is that of the store owning the selected buying offer, and the balance of
\* the liquidity flag is that of the store owning the selected selling offer,
\* in every snapshot, two stores of the same name after markup stripping
\* included.
C23_BalancesAreTheOwnersBalances ==
  /\ (pc = "generate_report" /\ outcome = "ok") =>
       \A k \in 1..Len(arbitrage) :
         LET opp == arbitrage[k]
         IN /\ opp.sell_store_balance = BuyerStoreBalance(opp)
            /\ opp.max_qty_buyer_can_afford = BuyerStoreBalance(opp) \div opp.sell_price
            /\ opp.buy_store_balance = SellerStoreBalance(opp)
            /\ opp.low_liquidity_warning <=>
                 (SellerStoreBalance(opp) - opp.investment_required < LIQUIDITY_MARGIN)
  /\ (pc = "monitor_deals" /\ outcome = "ok") =>
       \A k \in 1..Len(arbitrage) :
         LET opp == arbitrage[k]
         IN /\ opp.buy_store_balance = SellerStoreBalance(opp)
            /\ opp.low_liquidity_warning <=>
                 (SellerStoreBalance(opp) - opp.investment_required < LIQUIDITY_MARGIN)

(***************************************************************************)
(* Properties of the currencies                                            *)
(***************************************************************************)
\* the currency of the store with the given id
CurrencyOf(owner) ==
  LET i == CHOOSE i \in 1..Len(api.Stores) : api.Stores[i].Id = owner
  IN api.Stores[i].CurrencyName

\* with a filter set, both stores of every opportunity found trade in a
\* currency of the filter
BothInFilter ==
  (pc = "generate_report" /\ outcome = "ok" /\ currency_filter # {}) =>
    \A k \in 1..Len(arbitrage) :
      /\ CurrencyOf(arbitrage[k].buy_owner) \in currency_filter
      /\ CurrencyOf(arbitrage[k].sell_owner) \in currency_filter

\* C24: in every reported arbitrage opportunity the source store and the
\* destination store have the same currency identifier, with or without a
\* currency filter; with a filter both currencies are in the filter list.
C24_SameCurrencyBothEnds ==
  /\ BothInFilter
  /\ (pc \in ArbitrageRuns /\ outcome = "ok") =>
       \A k \in 1..Len(report) :
         CurrencyOf(report[k].buy_owner) = CurrencyOf(report[k].sell_owner)

(***************************************************************************)
(* Properties of the buyers' contributions                                 *)
(***************************************************************************)
ProductUnits(opp) ==
  SumSeq([p \in 1..Len(opp.product_details) |-> opp.product_details[p].amount])

\* the buyer pays at least the ingredient cost amortized per product unit
PaysItsCost(opp, buyer) == buyer.price * ProductUnits(opp) >= opp.ingredient_cost

\* the sequence without its b-th element
Without(s, b) == [i \in 1..(Len(s) - 1) |-> IF i < b THEN s[i] ELSE s[i + 1]]

\* the cascade's profit for product p when its buyers are `buyers`
CascadeProfit(opp, p, buyers) ==
  cascade(buyers, opp.product_details[p].amount, opp.max_batches_by_ingredients,
          ProductUnits(opp), opp.ingredient_cost).num

\* C25: every buyer to whom at least one batch is sold adds a non-negative
\* amount to total_possible_profit: no batch is sold to a buyer whose price is
\* below the ingredient cost amortized per product unit, so a buyer more in
\* the snapshot never lowers a recipe's total_possible_profit.
C25_NoBuyerLowersTheTotal ==
  /\ (pc = "crafting" /\ outcome = "ok") =>
       \A k \in 1..Len(crafting_opportunities) :
         LET opp == crafting_opportunities[k]
         IN \A p \in 1..Len(opp.product_details) :
              LET buyers == opp.product_details[p].all_buyers
              IN /\ \A b \in 1..Len(opp.batches_sold[p]) :
                      opp.batches_sold[p][b] > 0 => PaysItsCost(opp, buyers[b])
                 /\ \A b \in 1..Len(buyers) :
                      CascadeProfit(opp, p, buyers) >= CascadeProfit(opp, p, Without(buyers, b))
  /\ (pc = "profession" /\ outcome = "ok") =>
       \A k \in 1..Len(profession_opportunities) :
         LET opp == profession_opportunities[k]
         IN \A p \in 1..Len(opp.product_details) :
              \A b \in 1..Len(opp.product_details[p].all_buyers) :
                LET buyer == opp.product_details[p].all_buyers[b]
                IN buyer.qty \div opp.product_details[p].amount > 0 => PaysItsCost(opp, buyer)

(***************************************************************************)
(* Properties of the runs over any catalogue                               *)
(***************************************************************************)
\* the catalogue has an ingredient or a product of amount 0
ZeroAmount ==
  \E rv \in VariantPlaces :
    \/ \E i \in 1..Len(VariantAt(rv).Ingredients) : VariantAt(rv).Ingredients[i].Ammount = 0
    \/ \E p \in 1..Len(VariantAt(rv).Products) : VariantAt(rv).Products[p].Ammount = 0

\* C26: analyze_crafting_profits and analyze_profession_profits complete
\* without raising for every catalogue of the input schema, an ingredient or
\* a product of Ammount 0 included: no division by zero in floor(available /
\* amount), floor(buyer quantity / product amount) or ingredient cost / total
\* product units.
C26_CraftingRunsNeverRaise ==
  pc \in {"crafting", "profession"} => outcome # "raised"

(***************************************************************************)
(* Properties of the profession report                                     *)
(***************************************************************************)
\* the recipes filed under a profession that reach MIN_PROFESSION_PROFIT
ReachingRecipes(profession) ==
  SelectSeq(profession_opportunities,
            LAMBDA opp : opp.profession = profession /\ reaches(opp, MIN_PROFESSION_PROFIT))

SameQuotient(a, b) == a.num * b.den = b.num * a.den

\* what a ranked profession shows, against its recipes that reach the minimum
RankedRight(entry) ==
  LET recipes == ReachingRecipes(entry.profession)
      sum == SumFrac(KeyTotalPossibleProfit(recipes))
  IN /\ recipes # <<>>
     /\ entry.recipe_count = Len(recipes)
     /\ SameQuotient(entry.total_profit, sum)
     /\ entry.avg_profit_per_recipe.num * sum.den * Len(recipes)
          = sum.num * entry.avg_profit_per_recipe.den
     /\ \E k \in 1..Len(recipes) : entry.best_opportunity = recipes[k]
     /\ \A k \in 1..Len(recipes) :
          ProfitAtLeast(entry.best_opportunity, recipes[k])

\* C27: format_profession_report returns a report without raising for every
\* result of analyze_profession_profits, a non-empty result in which no
\* recipe reaches MIN_PROFESSION_PROFIT included; each ranked profession's
\* total_profit is the sum, avg_profit_per_recipe the mean and
\* best_opportunity the maximum of total_possible_profit over its recipes
\* that reach the minimum, and the ranking is by non-increasing total_profit.
C27_ProfessionReportNeverRaises ==
  (pc = "profession" /\ outcome = "ok") =>
    /\ report # IndexError
    /\ \A k \in 1..Len(report.ranking) : RankedRight(report.ranking[k])
    /\ \A k \in 1..(Len(report.ranking) - 1) :
         report.ranking[k].total_profit.num * report.ranking[k + 1].total_profit.den
           >= report.ranking[k + 1].total_profit.num * report.ranking[k].total_profit.den

(***************************************************************************)
(* Properties of consecutive checks of the monitor                         *)
(***************************************************************************)
\* the ids under which the monitor files the deals
IdsIn(deals) == {create_deal_id(deals[i]) : i \in 1..Len(deals)}

\* C28: across any sequence of check_deals calls, the first call reports no
\* deal as new or completed; after every call the tracked keys are the keys of
\* that call's analysis result; a key in the results of two consecutive calls
\* is not reported as new by the second, and a key in neither is not reported
\* as completed by the second.  The key is the deal's id, and the same holds
\* of the triple (item, source store, destination store).
C28_ConsecutiveChecks ==
  pc = "check_deals" =>
    LET previous == monitor.previous_deals
        current == monitor.current_deals
    IN /\ monitor.first_check =>
            monitor.new_deals = <<>> /\ monitor.completed_deals = <<>>
       /\ dict_keys(monitor.tracked_deals) = IdsIn(current)
       /\ KeysIn(dict_values(monitor.tracked_deals)) = KeysIn(current)
       /\ IdsIn(monitor.new_deals) \cap (IdsIn(previous) \cap IdsIn(current)) = {}
       /\ KeysIn(monitor.new_deals) \cap (KeysIn(previous) \cap KeysIn(current)) = {}
       /\ IdsIn(monitor.completed_deals) \subseteq IdsIn(previous) \cup IdsIn(current)
       /\ KeysIn(monitor.completed_deals) \subseteq KeysIn(previous) \cup KeysIn(current)

\* a later check that finds a deal of the check before again, reports another
\* as new and a third as completed
C28_Witness ==
  /\ pc = "check_deals"
  /\ ~monitor.first_check
  /\ KeysIn(monitor.previous_deals) \cap KeysIn(monitor.current_deals) # {}
  /\ monitor.new_deals # <<>>
  /\ monitor.completed_deals # <<>>

(***************************************************************************)
(* Properties of the batch counts of a reported recipe                     *)
(***************************************************************************)
\* C29: for every recipe reported by the conservative crafting analysis,
\* 1 <= max_craftable_batches = max_batches_by_demand
\*   <= max_batches_by_ingredients, and max_batches_by_ingredients is at least
\* MIN_RECIPE_BATCHES.
C29_BatchCountsOfReportedRecipes ==
  (pc = "crafting" /\ outcome = "ok") =>
    \A k \in 1..Len(crafting_opportunities) :
      LET opp == crafting_opportunities[k]
      IN /\ 1 <= opp.max_craftable_batches
         /\ opp.max_craftable_batches = opp.max_batches_by_demand
         /\ opp.max_batches_by_demand <= opp.max_batches_by_ingredients
         /\ opp.max_batches_by_ingredients >= MIN_RECIPE_BATCHES

\* a reported recipe that demand limits to fewer batches than
\* MIN_RECIPE_BATCHES, made from an ingredient needed twelve at a time
C29_Witness ==
  /\ pc = "crafting" /\ outcome = "ok"
  /\ \E k \in 1..Len(crafting_opportunities) :
       LET opp == crafting_opportunities[k]
       IN /\ opp.max_craftable_batches < MIN_RECIPE_BATCHES
          /\ opp.max_batches_by_ingredients < 100
          /\ \E i \in 1..Len(opp.ingredient_details) : opp.ingredient_details[i].amount = 12

(***************************************************************************)
(* Properties of the two ends of an opportunity                            *)
(***************************************************************************)
\* the store a reported opportunity buys from, by the field each analysis uses
BuyStoreOf(o) ==
  CASE pc \in BestPairRuns -> o.buy_store
    [] pc = "detailed_arbitrage" -> o.buy_from_store
    [] pc = "free_items" -> o.free_from

\* the free-item analysis never pairs a store with a store of the same name
FreeItemEndsDiffer ==
  (pc = "free_items" /\ outcome = "ok") =>
    \A k \in 1..Len(report) : BuyStoreOf(report[k]) # SellStoreOf(report[k])

\* C30: no reported arbitrage opportunity, of the best-pair, the all-pairwise
\* or the free-item analysis, has the same canonical store as both its source
\* and its destination.
C30_SourceAndDestinationDiffer ==
  /\ FreeItemEndsDiffer
  /\ (pc \in ArbitrageRuns /\ outcome = "ok") =>
       \A k \in 1..Len(report) :
         /\ report[k].buy_owner # report[k].sell_owner
         /\ BuyStoreOf(report[k]) # SellStoreOf(report[k])

====
